---- MODULE Spec2Model ----
(***************************************************************************)
(* rss2email: the feed-state engine.                                       *)
(*                                                                         *)
(* Feed.run (src/rss2email/feed.py) fetches a feed, decides per entry      *)
(* whether it is new, changed or a repeat, sends the messages (one per     *)
(* entry, or one digest), records the guids in `seen`, and on --clean      *)
(* prunes the guids that left the feed.                                    *)
(*                                                                         *)
(* Python values are modelled as follows.                                  *)
(*   None / absent string      the string "None"                           *)
(*   Message-ID '<uuid4@node>' a positive integer; 0 is "no Message-ID"    *)
(*   dict `seen`               a sequence of records in insertion order,   *)
(*                             one per guid (Python dicts keep insertion   *)
(*                             order; assigning an existing key keeps its  *)
(*                             position)                                   *)
(*   a missing 'old' key       old = FALSE                                 *)
(*                                                                         *)
(* Each part of the program has its own variables and its own             *)
(* specification; a specification holds the variables of the other parts   *)
(* at the value Unused.                                                    *)
(*   Spec, SpecClean  Feed.run on one feed (feed.py)                       *)
(*   SpecHook         Feed.run with a post_process hook                    *)
(*   SpecUid          Feed.run on entries with and without link and id     *)
(*   SpecFail         Feed.run with a _send that raises at any message     *)
(*   SpecMigrated     Feed.run on the state of a migrated datafile         *)
(*   SpecStore        one process on the feed store: Feeds.load, the       *)
(*                    migration of the datafile, Feeds.save through a      *)
(*                    temporary file (feeds.py)                            *)
(*   SpecLock         instances of r2e on one datafile, with the lock      *)
(*                    file of main.run (main.py)                           *)
(*   SpecLimited      a call of TimeLimitedFunction (util.py)              *)
(*   SpecCommand      the loop of the run command (command.py)             *)
(*   SpecNames        Feeds.new_feed and Feeds.remove (feeds.py)           *)
(***************************************************************************)
EXTENDS Integers, Sequences, FiniteSets, TLC

VARIABLES
    seen,       \* Feed.seen: sequence of [guid, hash, message_id, old]
    etag,       \* Feed.etag
    modified,   \* Feed.modified
    policy,     \* the feed's trust_link and trust_guid settings
    delivered,  \* history: guid -> the last per-entry message that _send
                \*          accepted for it since the guid entered `seen`
    run,        \* history: the Feed.run call of the current invocation of
                \*          r2e, its inputs and outputs ("none" before it)
    files,      \* the data directory: path -> content of the file
    sections,   \* the names of the 'feed.<name>' sections of the config
    feeds,      \* the Feeds list of the process: a sequence of feed states
    pc,         \* where the process is between its load and its save
    alive,      \* FALSE once the process was terminated
    unix,       \* the UNIX flag of feeds.py (fcntl is there)
    loaded,     \* history: the datafile as this process found it, and
                \*          whether the feeds were changed since the load
    inst,       \* the instances of r2e: where each is, its lock file and
                \*          the feed data it holds in memory
    lock,       \* lock file -> the instance that holds its lock (0: none)
    datafile,   \* the datafile the instances share: the runs saved to it
    tmp,        \* the temporary file next to it
    caller,     \* the thread that calls a TimeLimitedFunction: where it
                \*          is, its arguments and what the call gave it
    worker,     \* the TimeLimitedFunction thread: its target, its result
                \*          and error attributes, and whether it is alive
    expired,    \* the timeout of the join has passed
    listed,     \* the feeds of the run command: active flag and url each
    index,      \* args.index: the feeds the user asked for (<<>>: all)
    loop,       \* the loop of command.run: where it is, the position in
                \*          args.index, and last_server
    updates,    \* per feed, the `seen` updates its runs made in memory
    persisted,  \* per feed, the `seen` updates in the saved datafile
    events,     \* history: the sleeps, runs, logs and saves, in order
    names,      \* the names of the feeds of a Feeds list, in its order
    last        \* history: the last call of new_feed or remove, the list
                \*          before it, and the exception it raised

feedVars == <<seen, etag, modified, policy, delivered, run>>

storeVars == <<files, sections, feeds, pc, alive, unix, loaded>>

lockVars == <<inst, lock, datafile, tmp>>

limitedVars == <<caller, worker, expired>>

commandVars == <<listed, index, loop, updates, persisted, events>>

namesVars == <<names, last>>

vars == <<feedVars, storeVars, lockVars, limitedVars, commandVars, namesVars>>

\* the value of the variables a specification does not use
Unused == "unused"

FeedUnused ==
    /\ seen = Unused /\ etag = Unused /\ modified = Unused
    /\ policy = Unused /\ delivered = Unused /\ run = Unused

StoreUnused ==
    /\ files = Unused /\ sections = Unused /\ feeds = Unused /\ pc = Unused
    /\ alive = Unused /\ unix = Unused /\ loaded = Unused

LockUnused ==
    /\ inst = Unused /\ lock = Unused /\ datafile = Unused /\ tmp = Unused

LimitedUnused ==
    /\ caller = Unused /\ worker = Unused /\ expired = Unused

CommandUnused ==
    /\ listed = Unused /\ index = Unused /\ loop = Unused
    /\ updates = Unused /\ persisted = Unused /\ events = Unused

NamesUnused ==
    /\ names = Unused /\ last = Unused

\* the variables outside Feed.run
notFeedVars == <<storeVars, lockVars, limitedVars, commandVars, namesVars>>

NotFeedUnused ==
    /\ StoreUnused /\ LockUnused /\ LimitedUnused /\ CommandUnused
    /\ NamesUnused

\* the variables outside the feed store
notStoreVars == <<feedVars, lockVars, limitedVars, commandVars, namesVars>>

NotStoreUnused ==
    /\ FeedUnused /\ LockUnused /\ LimitedUnused /\ CommandUnused
    /\ NamesUnused

\* the variables outside the instances of r2e
notLockVars == <<feedVars, storeVars, limitedVars, commandVars, namesVars>>

NotLockUnused ==
    /\ FeedUnused /\ StoreUnused /\ LimitedUnused /\ CommandUnused
    /\ NamesUnused

\* the variables outside the time-limited call
notLimitedVars == <<feedVars, storeVars, lockVars, commandVars, namesVars>>

NotLimitedUnused ==
    /\ FeedUnused /\ StoreUnused /\ LockUnused /\ CommandUnused
    /\ NamesUnused

\* the variables outside the run command
notCommandVars == <<feedVars, storeVars, lockVars, limitedVars, namesVars>>

NotCommandUnused ==
    /\ FeedUnused /\ StoreUnused /\ LockUnused /\ LimitedUnused
    /\ NamesUnused

\* the variables outside new_feed and remove
notNamesVars == <<feedVars, storeVars, lockVars, limitedVars, commandVars>>

NotNamesUnused ==
    /\ FeedUnused /\ StoreUnused /\ LockUnused /\ LimitedUnused
    /\ CommandUnused

None == "None"

----------------------------------------------------------------------------
(* Bounds of the model *)

\* longest entry list a fetch returns
MaxEntries == 2

----------------------------------------------------------------------------
(* Sequence helpers *)

\* as Reverse, with the list walked in the order fetched
ReverseNot(s) == s

Reverse(s) == [i \in 1..Len(s) |-> s[Len(s) + 1 - i]]

SeqsUpTo(S, n) == UNION {[1..k -> S] : k \in 0..n}

----------------------------------------------------------------------------
(* The `seen` dict *)

SeenGuids(s) == {s[i].guid : i \in DOMAIN s}

\* dict.get(guid): index of the guid's record (0 when the key is missing)
SeenIndex(s, guid) ==
    IF guid \in SeenGuids(s)
    THEN CHOOSE i \in DOMAIN s : s[i].guid = guid
    ELSE 0

SeenGet(s, guid) == s[SeenIndex(s, guid)]

\* self.seen[guid] = state
SeenPut(s, guid, state) ==
    LET rec == [guid |-> guid, hash |-> state.hash,
                message_id |-> state.message_id, old |-> state.old]
    IN IF guid \in SeenGuids(s)
       THEN [s EXCEPT ![SeenIndex(s, guid)] = rec]
       ELSE Append(s, rec)

\* del old_state['old'] (in place: old_state is the dict stored in self.seen)
SeenClearOld(s, guid) ==
    [i \in DOMAIN s |->
        IF s[i].guid = guid THEN [s[i] EXCEPT !.old = FALSE] ELSE s[i]]

\* for guid in self.seen: self.seen[guid]['old'] = True
SeenMarkAllOld(s) == [i \in DOMAIN s |-> [s[i] EXCEPT !.old = TRUE]]

MessageIds(s) == {s[i].message_id : i \in DOMAIN s} \ {0}

----------------------------------------------------------------------------
(* Entries, identity and content hash *)

\* hashlib.sha1(text).hexdigest(): one digest per text, different texts
\* have different digests
Sha1(text) ==
    CASE text = ""   -> "sha1:"
      [] text = "c1" -> "sha1:c1"
      [] text = "c2" -> "sha1:c2"
      [] text = "C1" -> "sha1:C1"
      [] text = "l1" -> "sha1:l1"
      [] text = "l2" -> "sha1:l2"
      [] text = "t1" -> "sha1:t1"

\* str.strip()
Strip(text) == IF text = " " THEN "" ELSE text

\* Feed._get_entry_hash
GetEntryHash(entry) ==
    LET content_value == Strip(entry.content)
        text == IF content_value # "" THEN content_value
                ELSE IF entry.link # "" THEN entry.link
                ELSE IF entry.title # "" THEN entry.title
                ELSE ""
    IN Sha1(text)

\* as GetUidForEntry, with the native id tried before the link
GetUidForEntryIdFirst(cfg, entry) ==
    IF cfg.trust_guid /\ entry.id # "" THEN entry.id
    ELSE IF cfg.trust_link /\ entry.link # "" THEN entry.link
    ELSE GetEntryHash(entry)

\* Feed._get_uid_for_entry
GetUidForEntry(cfg, entry) ==
    IF cfg.trust_link /\ entry.link # "" THEN entry.link
    ELSE IF cfg.trust_guid /\ entry.id # "" THEN entry.id
    ELSE GetEntryHash(entry)

----------------------------------------------------------------------------
(* Feed._process_entry *)

\* uuid.uuid4(): an identifier that differs from every identifier in use
Uuid4(used) ==
    CHOOSE n \in 1..(Cardinality(used) + 1) :
        n \notin used /\ \A m \in 1..(n - 1) : m \in used

\* as IsNewOrChanged, with the reply_changes test left out
IsNewOrChangedAnyPolicy(cfg, known, new_hash, old_hash) ==
    IF ~known THEN TRUE ELSE new_hash # old_hash

\* as IsNewOrChanged, with the comparison of the hashes left out
IsNewOrChangedAnyHash(cfg, known, new_hash, old_hash) ==
    IF ~known THEN TRUE ELSE cfg.reply_changes

\* Feed._process_entry, lines 493-507: is the entry new or changed (a
\* message is made for it), or a repeat (None is returned)?
IsNewOrChanged(cfg, known, new_hash, old_hash) ==
    IF ~known THEN TRUE
    ELSE IF cfg.reply_changes THEN new_hash # old_hash
    ELSE FALSE

\* as InReplyTo, with no header for any entry
InReplyToNothing(known, old_state) == 0

\* Feed._process_entry, line 515: the In-Reply-To header (0: none)
InReplyTo(known, old_state) ==
    IF known THEN old_state.message_id ELSE 0

\* Feed._process_entry: None (emit = FALSE) for a repeat, otherwise the
\* guid, its new state and the message.  `s` is self.seen; the returned
\* seen differs from s where the 'old' key of the stored state was deleted.
ProcessEntry(cfg, s, entry, uuid, date) ==
    LET guid == GetUidForEntry(cfg, entry)
        new_hash == GetEntryHash(entry)
        known == guid \in SeenGuids(s)
        s1 == IF known THEN SeenClearOld(s, guid) ELSE s
        old_state == IF known THEN SeenGet(s1, guid)
                     ELSE [guid |-> guid, hash |-> None,
                           message_id |-> 0, old |-> FALSE]
        new_state == [old_state EXCEPT !.hash = new_hash]
        message == [guid |-> guid,
                    message_id |-> uuid,
                    in_reply_to |-> InReplyTo(known, old_state),
                    date |-> date,
                    body |-> entry.content,
                    parts |-> <<>>]
    IN [emit |-> IsNewOrChanged(cfg, known, new_hash, old_state.hash),
        seen |-> s1, guid |-> guid,
        state |-> new_state, message |-> message]

----------------------------------------------------------------------------
(* Hooks *)

\* str.lower()
Lower(text) == IF text = "C1" THEN "c1" ELSE text

\* The post_process hook (hook.py): returns the possibly altered message,
\* or nothing when the message should not be sent.  `result` is a sequence
\* of zero or one message (what the hook returned), `message` is the
\* message object the hook was given, as it is after the call.
\*   "downcase"  rss2email.post_process.downcase: alters the message in
\*               place and returns it
\*   "rewrite"   a user hook that leaves its argument alone and returns a
\*               new message
\*   "filter"    a user hook that drops the entries whose content is "c2"
PostProcess(hook, entry, message) ==
    CASE hook = "downcase" ->
            LET altered == [message EXCEPT !.body = Lower(message.body)]
            IN [result |-> <<altered>>, message |-> altered]
      [] hook = "rewrite" ->
            [result |-> <<[message EXCEPT !.body = "rewritten"]>>,
             message |-> message]
      [] hook = "filter" ->
            [result |-> IF entry.content = "c2" THEN <<>> ELSE <<message>>,
             message |-> message]

\* The digest_post_process hook: "downcase" returns the digest, "veto"
\* returns nothing.
DigestPostProcess(hook, digest) ==
    CASE hook = "downcase" -> <<digest>>
      [] hook = "veto"     -> <<>>

----------------------------------------------------------------------------
(* Feed._check_for_errors *)

\* The exception _check_for_errors raises for a parsed result, or "ok".
\* `warned` is set whenever the feed version is not recognized, so the
\* final ProcessingError needs a recognized version and none at once.
CheckForErrors(parsed) ==
    LET warned == ~parsed.headers \/ ~parsed.version \/ parsed.bozo
    IN IF parsed.status \notin {200, 301, 302, 304, 307} THEN "HTTPError"
       ELSE IF ~warned /\ parsed.status \in {200, 302}
               /\ parsed.entries = <<>> /\ ~parsed.version
            THEN "ProcessingError"
       ELSE "ok"

----------------------------------------------------------------------------
(* Feed.run, per-entry branch: the loop over Feed._process *)

\* as RecordedState, with the Message-ID stored outside the `if send`
RecordedStateAlways(state, message, send) ==
    [state EXCEPT !.message_id = message.message_id]

\* as RecordedState, with the Message-ID never stored
RecordedStateNever(state, message, send) == state

\* lines 935-938: the state stored for the guid; the Message-ID is put in
\* only when the message was sent
RecordedState(state, message, send) ==
    IF send THEN [state EXCEPT !.message_id = message.message_id] ELSE state

\* The loop `for (guid, state, sender, message) in self._process(parsed)`
\* of the per-entry branch.  _process is a generator, so the entry k+1 is
\* examined against self.seen as the loop body left it for entry k.
\*   rev       reversed(parsed.entries)
\*   sendFail  the _send call that raises (0: none does)
\*   acc       k: next position in rev; seen; used: identifiers in use;
\*             emitted: messages _process yielded; sent: messages _send
\*             accepted; sends: _send calls so far; raised
\*   pe        what _process_entry returned for the entry rev[acc.k]
\*   hooked    what the post_process hook returned for its message
\* The result is acc after the loop body, for the entry that was yielded.
SendOne(send, sendFail, acc, pe, hooked) ==
    IF ~pe.emit THEN [acc EXCEPT !.k = acc.k + 1, !.seen = pe.seen]
    ELSE IF hooked.result = <<>>
    THEN [acc EXCEPT !.k = acc.k + 1, !.seen = pe.seen,
                     !.used = acc.used \cup {pe.message.message_id}]
    ELSE IF send /\ acc.sends + 1 = sendFail
    THEN [acc EXCEPT !.k = acc.k + 1, !.seen = pe.seen,
                     !.used = acc.used \cup {pe.message.message_id},
                     !.emitted = Append(acc.emitted, hooked.message),
                     !.sends = acc.sends + 1,
                     !.raised = TRUE]
    ELSE [acc EXCEPT
            !.k = acc.k + 1,
            !.used = acc.used \cup {pe.message.message_id},
            !.emitted = Append(acc.emitted, hooked.message),
            !.sent = IF send THEN Append(acc.sent, hooked.message)
                     ELSE acc.sent,
            !.sends = IF send THEN acc.sends + 1 ELSE acc.sends,
            !.seen = SeenPut(pe.seen, pe.guid,
                             RecordedState(pe.state, hooked.message, send))]

\* Feed._process, lines 397-403: the post_process hook on the message
\* _process_entry made
Hooked(cfg, entry, message) ==
    IF cfg.post_process = ""
    THEN [result |-> <<message>>, message |-> message]
    ELSE PostProcess(cfg.post_process, entry, message)

\* Feed._process, lines 392-394: the entry rev[k] under self.seen = s
Processed(cfg, s, rev, k, used) ==
    ProcessEntry(cfg, s, rev[k], Uuid4(used), k)

SendNext(cfg, send, sendFail, rev, acc, pe) ==
    SendOne(send, sendFail, acc, pe, Hooked(cfg, rev[acc.k], pe.message))

RECURSIVE SendEach(_, _, _, _, _)
SendEach(cfg, send, sendFail, rev, acc) ==
    IF acc.k > Len(rev) \/ acc.raised THEN acc
    ELSE SendEach(cfg, send, sendFail, rev,
                  SendNext(cfg, send, sendFail, rev, acc,
                           Processed(cfg, acc.seen, rev, acc.k, acc.used)))

----------------------------------------------------------------------------
(* Feed.run, digest branch *)

\* The loop of the digest branch: every yielded (guid, state) is appended
\* to the local list `seen` (here: batch) and the message is attached to
\* the digest; self.seen changes only where an 'old' key is deleted.
CollectOne(acc, pe, hooked) ==
    IF ~pe.emit THEN [acc EXCEPT !.k = acc.k + 1, !.seen = pe.seen]
    ELSE IF hooked.result = <<>>
    THEN [acc EXCEPT !.k = acc.k + 1, !.seen = pe.seen,
                     !.used = acc.used \cup {pe.message.message_id}]
    ELSE [acc EXCEPT
            !.k = acc.k + 1, !.seen = pe.seen,
            !.used = acc.used \cup {pe.message.message_id},
            !.emitted = Append(acc.emitted, hooked.message),
            !.batch = Append(acc.batch,
                             [guid |-> pe.guid, state |-> pe.state])]

CollectNext(cfg, rev, acc, pe) ==
    CollectOne(acc, pe, Hooked(cfg, rev[acc.k], pe.message))

RECURSIVE CollectDigest(_, _, _)
CollectDigest(cfg, rev, acc) ==
    IF acc.k > Len(rev) THEN acc
    ELSE CollectDigest(cfg, rev,
                       CollectNext(cfg, rev, acc,
                                   Processed(cfg, acc.seen, rev, acc.k,
                                             acc.used)))

\* Feed._new_digest followed by Feed._append_to_digest for each message
NewDigest(uuid, parts) ==
    [guid |-> "", message_id |-> uuid, in_reply_to |-> 0, date |-> 0,
     body |-> "", parts |-> parts]

\* as SendDigest, with the Date of the first part
SendDigestFirstDate(digest) ==
    [digest EXCEPT !.date = digest.parts[1].date]

\* Feed._send_digest: the Date is that of the last part of the payload
SendDigest(digest) ==
    [digest EXCEPT !.date = digest.parts[Len(digest.parts)].date]

\* for (guid, state) in seen: self.seen[guid] = state
RECURSIVE CommitBatch(_, _)
CommitBatch(s, batch) ==
    IF batch = <<>> THEN s
    ELSE CommitBatch(SeenPut(s, batch[1].guid, batch[1].state), Tail(batch))

\* as VetoedSeen, with the batch stored before the return
VetoedSeenCommitted(s, batch) == CommitBatch(s, batch)

\* lines 925-926: digest_post_process returned nothing and run returns;
\* the batch is dropped
VetoedSeen(s, batch) == s

----------------------------------------------------------------------------
(* Feed.run, the pruning of --clean *)

\* the number of 'old' guids the pruning keeps
KeepOld == 3

\* as Pruning, with the test of the entry list left out
PruningWhenClean(clean, parsed) == clean

\* lines 911 and 943: the guids are marked and pruned when --clean is
\* given and the fetch returned entries
Pruning(clean, parsed) == clean /\ Len(parsed.entries) > 0

\* as KeepsMark, with the countdown read one step late
KeepsMarkOneMore(old) == old >= 0

\* line 966, `if old > 0`: the guid keeps its place and loses its mark
KeepsMark(old) == old > 0

\* for guid in reversed(list(self.seen)): ... ; i walks from the last
\* position to the first, `old` is the countdown of the code
RECURSIVE Prune(_, _, _)
Prune(s, i, old) ==
    IF i = 0 THEN s
    ELSE IF s[i].old
    THEN IF KeepsMark(old)
         THEN Prune([s EXCEPT ![i].old = FALSE], i - 1, old - 1)
         ELSE Prune(SubSeq(s, 1, i - 1) \o SubSeq(s, i + 1, Len(s)),
                    i - 1, old - 1)
    ELSE Prune(s, i - 1, old)

----------------------------------------------------------------------------
(* Feed.run *)

\* Feed.run(send, clean) on the feed state (s, et, mo).
\*   fetch     what self._fetch() does: raises, or returns `parsed`
\*   sendFail  the _send call that raises (0: none does)
\*   used      the message identifiers in use
\* The result holds the feed state the call leaves behind, the messages
\* _process yielded, the messages _send accepted, and how the call ended:
\* "ok", "vetoed" (the return after digest_post_process), or the exception.
End(result, s, et, mo, emitted, sent) ==
    [result |-> result, seen |-> s, etag |-> et, modified |-> mo,
     emitted |-> emitted, sent |-> sent]

\* lines 940-970: the validators of the response, then the pruning
Finish(clean, parsed, s, emitted, sent) ==
    End("ok",
        IF Pruning(clean, parsed) THEN Prune(s, Len(s), KeepOld) ELSE s,
        parsed.etag, parsed.modified, emitted, sent)

\* as DigestRun, with the batch stored before the digest is sent
DigestRunStoredFirst(send, clean, parsed, sendFail, et, mo, acc, hooked) ==
    IF acc.batch = <<>> THEN Finish(clean, parsed, acc.seen, acc.emitted, <<>>)
    ELSE IF hooked = <<>>
    THEN End("vetoed", VetoedSeen(acc.seen, acc.batch), et, mo,
             acc.emitted, <<>>)
    ELSE IF send /\ sendFail = 1
    THEN End("SendError", CommitBatch(acc.seen, acc.batch), et, mo,
             acc.emitted, <<>>)
    ELSE Finish(clean, parsed, CommitBatch(acc.seen, acc.batch), acc.emitted,
                IF send THEN <<SendDigest(hooked[1])>> ELSE <<>>)

\* lines 922-931: the digest branch after its loop.  acc is what the loop
\* left, hooked what digest_post_process returned for the digest (the
\* digest itself without a hook); et and mo are the validators as line
\* 905-907 left them.
DigestRun(send, clean, parsed, sendFail, et, mo, acc, hooked) ==
    IF acc.batch = <<>> THEN Finish(clean, parsed, acc.seen, acc.emitted, <<>>)
    ELSE IF hooked = <<>>
    THEN End("vetoed", VetoedSeen(acc.seen, acc.batch), et, mo,
             acc.emitted, <<>>)
    ELSE IF send /\ sendFail = 1
    THEN End("SendError", acc.seen, et, mo, acc.emitted, <<>>)
    ELSE Finish(clean, parsed, CommitBatch(acc.seen, acc.batch), acc.emitted,
                IF send THEN <<SendDigest(hooked[1])>> ELSE <<>>)

\* lines 922-924: the digest handed to the hook, if there is one
HookedDigest(cfg, digest) ==
    IF cfg.digest_post_process = "" THEN <<digest>>
    ELSE DigestPostProcess(cfg.digest_post_process, digest)

\* lines 916-921: the digest branch after its loop, with the digest made
\* of the messages the loop attached
Digested(cfg, send, clean, parsed, sendFail, et, mo, digestId, acc) ==
    DigestRun(send, clean, parsed, sendFail, et, mo, acc,
              HookedDigest(cfg, NewDigest(digestId, acc.emitted)))

\* lines 933-938: the per-entry branch after its loop
PerEntryRan(clean, parsed, et, mo, acc) ==
    IF acc.raised
    THEN End("SendError", acc.seen, et, mo, acc.emitted, acc.sent)
    ELSE Finish(clean, parsed, acc.seen, acc.emitted, acc.sent)

\* lines 909-938: the run after a fetch that returned `parsed`; s1 is
\* self.seen after the marking of line 911-913
AfterFetch(cfg, send, clean, parsed, sendFail, s1, et, mo, used) ==
    IF CheckForErrors(parsed) # "ok"
    THEN End(CheckForErrors(parsed), s1, et, mo, <<>>, <<>>)
    ELSE IF cfg.digest
    THEN Digested(cfg, send, clean, parsed, sendFail, et, mo, Uuid4(used),
                  CollectDigest(cfg, Reverse(parsed.entries),
                     [k |-> 1, seen |-> s1,
                      used |-> used \cup {Uuid4(used)},
                      emitted |-> <<>>, batch |-> <<>>]))
    ELSE PerEntryRan(clean, parsed, et, mo,
                     SendEach(cfg, send, sendFail, Reverse(parsed.entries),
                        [k |-> 1, seen |-> s1, used |-> used,
                         emitted |-> <<>>, sent |-> <<>>, sends |-> 0,
                         raised |-> FALSE]))

FeedRun(cfg, send, clean, fetch, sendFail, s, et, mo, used) ==
    IF cfg.to = "" THEN End("NoToEmailAddress", s, et, mo, <<>>, <<>>)
    ELSE IF fetch.raises
    THEN End("FetchError", s, IF clean THEN None ELSE et,
             IF clean THEN None ELSE mo, <<>>, <<>>)
    ELSE AfterFetch(cfg, send, clean, fetch.parsed, sendFail,
                  IF Pruning(clean, fetch.parsed) THEN SeenMarkAllOld(s)
                  ELSE s,
                  IF clean THEN None ELSE et, IF clean THEN None ELSE mo,
                  used)

----------------------------------------------------------------------------
(* The inputs of a run *)

\* the entries a feed may carry: an entry, and the same entry with its
\* content changed.  They are one guid where the link or the native id is
\* trusted, and two guids where the guid is the content hash.
EntryUniverse ==
    {[link |-> "l1", id |-> "i1", content |-> "c1", title |-> "t1"],
     [link |-> "l1", id |-> "i1", content |-> "c2", title |-> "t1"]}

Policies == [trust_link : BOOLEAN, trust_guid : BOOLEAN]

\* a feed's configuration, read again by every invocation
Config(pol, reply_changes, digest, post_process, digest_post_process) ==
    [to |-> "a@b.invalid",
     trust_link |-> pol.trust_link, trust_guid |-> pol.trust_guid,
     reply_changes |-> reply_changes, digest |-> digest,
     post_process |-> post_process,
     digest_post_process |-> digest_post_process]

\* per-entry delivery, digest delivery, digest delivery with a hook that
\* vetoes the digest
Configs(pol) ==
    {Config(pol, rc, FALSE, "", "") : rc \in BOOLEAN}
    \cup {Config(pol, rc, TRUE, "", dpp) : rc \in BOOLEAN, dpp \in {"", "veto"}}

\* what feedparser.parse returns
Parsed(status, version, entries, etg, mod) ==
    [status |-> status, headers |-> TRUE, version |-> version,
     bozo |-> FALSE, entries |-> entries, etag |-> etg, modified |-> mod]

Fetched(entries) ==
    [raises |-> FALSE, parsed |-> Parsed(200, TRUE, entries, "e1", "m1")]

\* the fetch raises (a timeout), or the server answers 404
FetchFailures ==
    {[raises |-> TRUE, parsed |-> Parsed(200, FALSE, <<>>, None, None)]}
    \cup {[raises |-> FALSE, parsed |-> Parsed(404, TRUE, es, None, None)] :
            es \in {<<>>, <<CHOOSE e \in EntryUniverse : TRUE>>}}

----------------------------------------------------------------------------
(* The state machine of one feed *)

\* the history before the feed is run
NoRun ==
    [result |-> "none",
     cfg |-> Config([trust_link |-> FALSE, trust_guid |-> FALSE],
                    FALSE, FALSE, "", ""),
     send |-> FALSE, clean |-> FALSE,
     fetch |-> Fetched(<<>>), emitted |-> <<>>, sent |-> <<>>,
     rerun |-> FALSE,
     before |-> [seen |-> <<>>, etag |-> None, modified |-> None,
                 delivered |-> <<>>],
     previous |-> [result |-> "none", send |-> FALSE, clean |-> FALSE,
                   sent |-> <<>>]]

Init ==
    /\ seen = <<>>
    /\ etag = None
    /\ modified = None
    /\ policy \in Policies
    /\ delivered = <<>>
    /\ run = NoRun
    /\ NotFeedUnused

\* delivered[guid]: the Message-ID of the last message that _send accepted
\* for the guid, the reply_changes setting of that run, and how the guid's
\* state was written again since ("": it was not, "dry": by a run with
\* send=False, "digest": by a digest run)
NotDelivered ==
    [message_id |-> 0, reply_changes |-> FALSE, rerecorded |-> ""]

Delivered(d, guid) == IF guid \in DOMAIN d THEN d[guid] ELSE NotDelivered

DeliveredIds(d) == {d[g].message_id : g \in DOMAIN d} \ {0}

\* the last message of the sequence that is for the guid (<<>>: none is)
RECURSIVE LastFor(_, _)
LastFor(messages, guid) ==
    IF messages = <<>> THEN <<>>
    ELSE IF messages[Len(messages)].guid = guid
    THEN <<messages[Len(messages)]>>
    ELSE LastFor(SubSeq(messages, 1, Len(messages) - 1), guid)

NextDelivered(d, cfg, send, r, guid) ==
    LET last_sent == LastFor(r.sent, guid)
        last_emitted == LastFor(r.emitted, guid)
        recorded == r.result \in {"ok", "SendError"} /\ last_emitted # <<>>
                    /\ (cfg.digest => r.result = "ok")
    IN IF last_sent # <<>>
       THEN [message_id |-> last_sent[1].message_id,
             reply_changes |-> cfg.reply_changes, rerecorded |-> ""]
       ELSE IF recorded /\ cfg.digest
       THEN [Delivered(d, guid) EXCEPT !.rerecorded = "digest"]
       ELSE IF recorded /\ ~send
       THEN [Delivered(d, guid) EXCEPT !.rerecorded = "dry"]
       ELSE Delivered(d, guid)

\* one call of Feed.run, and what it leaves in the history variables
\* the feed state and the history after a call of Feed.run that ended as r
Called(cfg, send, clean, fetch, rerun, r) ==
    /\ seen' = r.seen
    /\ etag' = r.etag
    /\ modified' = r.modified
    /\ policy' = policy
    /\ delivered' = [g \in SeenGuids(r.seen) |->
                        NextDelivered(delivered, cfg, send, r, g)]
    /\ run' = [result |-> r.result, cfg |-> cfg, send |-> send,
               clean |-> clean, fetch |-> fetch,
               emitted |-> r.emitted, sent |-> r.sent, rerun |-> rerun,
               before |-> [seen |-> seen, etag |-> etag,
                           modified |-> modified,
                           delivered |-> delivered],
               previous |-> [result |-> run.result, send |-> run.send,
                             clean |-> run.clean, sent |-> run.sent]]
    /\ UNCHANGED notFeedVars

Call(cfg, send, clean, fetch, sendFail, rerun) ==
    Called(cfg, send, clean, fetch, rerun,
           FeedRun(cfg, send, clean, fetch, sendFail, seen, etag, modified,
                   MessageIds(seen) \cup DeliveredIds(delivered)))

\* r2e run: the feed is run once in an invocation
Run(cfg, send, clean, fetch, sendFail) ==
    /\ run.result = "none"
    /\ Call(cfg, send, clean, fetch, sendFail, FALSE)

\* the next invocation of r2e run finds the configuration and the feed's
\* payload as the last one did
Rerun(send, clean) ==
    /\ run.result \notin {"none", "reset"}
    /\ ~run.rerun
    /\ Call(run.cfg, send, clean, run.fetch, 0, TRUE)

\* the invocation ends
Exit ==
    /\ run.result # "none"
    /\ run' = NoRun
    /\ UNCHANGED <<seen, etag, modified, policy, delivered>>
    /\ UNCHANGED notFeedVars

\* r2e reset: Feed.reset
Reset ==
    /\ run.result = "none"
    /\ seen' = <<>>
    /\ etag' = None
    /\ modified' = None
    /\ delivered' = <<>>
    /\ run' = [NoRun EXCEPT !.result = "reset"]
    /\ UNCHANGED policy
    /\ UNCHANGED notFeedVars

Next ==
    \/ \E cfg \in Configs(policy),
          es \in SeqsUpTo(EntryUniverse, MaxEntries) :
          \/ Run(cfg, FALSE, FALSE, Fetched(es), 0)
          \/ \E sendFail \in 0..1 : Run(cfg, TRUE, FALSE, Fetched(es), sendFail)
    \/ \E send \in BOOLEAN : Rerun(send, FALSE)
    \/ Exit
    \/ Reset

Spec == Init /\ [][Next]_vars

----------------------------------------------------------------------------
(* r2e run --clean on a loaded datafile *)

MaxSeen == 5

\* the n-th guid of the feed, and the entry that carries it
GuidName(n) == "g" \o ToString(n)

CleanEntry(n) ==
    [link |-> "l" \o ToString(n), id |-> GuidName(n), content |-> "c1",
     title |-> "t1"]

\* the entries of the feed: those of the guids the datafile may hold, and
\* one it never holds
CleanEntries == {CleanEntry(n) : n \in 1..(MaxSeen + 1)}

\* Feeds._load_feeds: the `seen` dict of a datafile with n guids, each
\* delivered once; the guids of `stale` carry the mark of an earlier
\* --clean run that did not reach the pruning (line 913 marks them all)
Loaded(n, stale) ==
    [i \in 1..n |-> [guid |-> GuidName(i), hash |-> Sha1("c1"),
                     message_id |-> i, old |-> i \in stale]]

\* the default policy: trust-guid on, trust-link off
DefaultPolicy == [trust_link |-> FALSE, trust_guid |-> TRUE]

CleanConfigs ==
    {Config(DefaultPolicy, FALSE, FALSE, "", ""),
     Config(DefaultPolicy, FALSE, TRUE, "", ""),
     Config(DefaultPolicy, FALSE, TRUE, "", "veto")}

CleanFetches ==
    {Fetched(es) : es \in SeqsUpTo(CleanEntries, MaxEntries)}
    \cup FetchFailures

InitClean ==
    /\ seen \in UNION {{Loaded(n, stale) : stale \in {{}, 1..n}} :
                         n \in 0..MaxSeen}
    /\ etag = "e0"
    /\ modified = "m0"
    /\ policy = DefaultPolicy
    /\ delivered = [g \in SeenGuids(seen) |->
                       [NotDelivered EXCEPT
                           !.message_id = SeenGet(seen, g).message_id]]
    /\ run = NoRun
    /\ NotFeedUnused

NextClean ==
    \/ \E cfg \in CleanConfigs, clean \in BOOLEAN, fetch \in CleanFetches :
          \/ Run(cfg, FALSE, clean, fetch, 0)
          \/ \E sendFail \in 0..1 : Run(cfg, TRUE, clean, fetch, sendFail)
    \/ Reset

SpecClean == InitClean /\ [][NextClean]_vars

----------------------------------------------------------------------------
(* What the claims speak of *)

\* the entry list the run fetched
Entries == run.fetch.parsed.entries

\* the entries of the fetched list whose guid is g
EntriesFor(g) ==
    {i \in DOMAIN Entries : GetUidForEntry(run.cfg, Entries[i]) = g}

\* the messages for guid g among those _process yielded, and among those
\* _send accepted (a digest is a message for no guid)
EmittedFor(g) == {i \in DOMAIN run.emitted : run.emitted[i].guid = g}

SentFor(g) == {i \in DOMAIN run.sent : run.sent[i].guid = g}

\* the run called Feed.run to its end
Completed == run.result = "ok"

\* the run sent one message per entry, with the default (absent) hooks
PerEntryRun ==
    /\ run.result \in {"ok", "SendError"}
    /\ ~run.cfg.digest
    /\ run.cfg.post_process = ""

\* the fetched list has exactly one entry with guid g, whose hash differs
\* from the one stored for g
ChangedOnce(g) ==
    /\ g \in SeenGuids(run.before.seen)
    /\ \E i \in DOMAIN Entries :
          /\ EntriesFor(g) = {i}
          /\ GetEntryHash(Entries[i]) # SeenGet(run.before.seen, g).hash

\* the fetched list has exactly one entry with guid g and the hash stored
\* for g
UnchangedOnce(g) ==
    /\ g \in SeenGuids(run.before.seen)
    /\ \E i \in DOMAIN Entries :
          /\ EntriesFor(g) = {i}
          /\ GetEntryHash(Entries[i]) = SeenGet(run.before.seen, g).hash

----------------------------------------------------------------------------
(* C1: dedup idempotence *)

\* C1: for any policy and clean=False, when a completed run with send=True
\* is followed by a run against the identical entry list, the second run
\* sends nothing and leaves `seen` as the first run left it.
C1_DedupIdempotence ==
    (/\ run.rerun
     /\ run.previous.result = "ok" /\ run.previous.send
     /\ ~run.previous.clean /\ ~run.clean
     /\ run.cfg.post_process = "" /\ run.cfg.digest_post_process = "")
    => (run.sent = <<>> /\ seen = run.before.seen)

----------------------------------------------------------------------------
(* C2: change-triggered reply *)

\* what the history holds for guid g when the run starts
DeliveredBefore(g) == Delivered(run.before.delivered, g)

\* the hash of the one entry of the fetched list whose guid is g
HashFor(g) == GetEntryHash(Entries[CHOOSE i \in DOMAIN Entries : i \in EntriesFor(g)])

\* the case of C2 for guid g: reply_changes is on, a message for g was
\* delivered and g's state was not written since, and the run (one message
\* per entry, send=True) fetches one entry for g whose hash differs
ChangeFetched(g) ==
    /\ Completed /\ PerEntryRun /\ run.send
    /\ run.cfg.reply_changes
    /\ DeliveredBefore(g).message_id # 0
    /\ DeliveredBefore(g).rerecorded = ""
    /\ ChangedOnce(g)

\* C2: with reply_changes on, when G was delivered with hash H1 and a run
\* fetches an entry with guid G and hash H2 # H1, the run sends exactly one
\* message for G, its In-Reply-To is the Message-ID of the delivered
\* message, and afterwards seen[G] holds H2 and the new Message-ID.
C2_ChangeTriggeredReply ==
    \A g \in SeenGuids(run.before.seen) :
        ChangeFetched(g) =>
            \E i \in DOMAIN run.sent :
                /\ SentFor(g) = {i}
                /\ run.sent[i].in_reply_to = DeliveredBefore(g).message_id
                /\ run.sent[i].message_id # DeliveredBefore(g).message_id
                /\ SeenGet(seen, g) =
                      [guid |-> g, hash |-> HashFor(g),
                       message_id |-> run.sent[i].message_id, old |-> FALSE]

C2_Witness == \E g \in SeenGuids(run.before.seen) : ChangeFetched(g)

----------------------------------------------------------------------------
(* C3: no reply by default *)

\* the messages of the run, the parts of a digest included
AllMessages ==
    {run.emitted[i] : i \in DOMAIN run.emitted}
    \cup {run.sent[i] : i \in DOMAIN run.sent}
    \cup UNION {{run.sent[i].parts[j] : j \in DOMAIN run.sent[i].parts} :
                  i \in DOMAIN run.sent}

\* C3: with reply_changes off, a run makes no message for a guid that is
\* in `seen` when the run starts, whether or not the hash differs.
C3_NoReplyDefault ==
    ~run.cfg.reply_changes =>
        \A m \in AllMessages : m.guid \notin SeenGuids(run.before.seen)

C3_Witness ==
    /\ Completed /\ run.send /\ ~run.cfg.reply_changes
    /\ \E g \in SeenGuids(run.before.seen) : ChangedOnce(g)

----------------------------------------------------------------------------
(* C4: a dry run does not advance the threading state *)

\* the Message-ID stored for g in the `seen` dict s (0: none)
StoredId(s, g) == IF g \in SeenGuids(s) THEN SeenGet(s, g).message_id ELSE 0

\* C4: a run with send=False neither adds nor replaces a stored
\* Message-ID; so when a real run (one message per entry, reply_changes
\* on) follows dry runs, a changed message is a reply to the last message
\* delivered for its guid.
C4_DryRunKeepsThread ==
    /\ (run.result \notin {"none", "reset"} /\ ~run.send) =>
          \A g \in SeenGuids(seen) :
              StoredId(seen, g) = StoredId(run.before.seen, g)
    /\ (PerEntryRun /\ run.send /\ run.cfg.reply_changes) =>
          \A i \in DOMAIN run.emitted :
              LET g == run.emitted[i].guid
              IN (DeliveredBefore(g).rerecorded = "dry" /\ EmittedFor(g) = {i})
                 => run.emitted[i].in_reply_to = DeliveredBefore(g).message_id

C4_Witness ==
    /\ Completed /\ PerEntryRun /\ run.send /\ run.cfg.reply_changes
    /\ \E g \in SeenGuids(run.before.seen) :
          /\ DeliveredBefore(g).rerecorded = "dry"
          /\ DeliveredBefore(g).message_id # 0
          /\ ChangedOnce(g)
          /\ \E i \in SentFor(g) :
                run.sent[i].in_reply_to = DeliveredBefore(g).message_id

----------------------------------------------------------------------------
(* C5: linear reply chain *)

\* the Message-ID of the message delivered for g before the i-th message
\* of the run was made (0: none): that of the last message the run sent
\* for g before it, else that of the last one earlier runs delivered
PrecedingId(i) ==
    LET g == run.emitted[i].guid
        earlier == LastFor(SubSeq(run.sent, 1, i - 1), g)
    IN IF i - 1 <= Len(run.sent) /\ earlier # <<>>
       THEN earlier[1].message_id
       ELSE DeliveredBefore(g).message_id

\* C5: when a message for guid G is handed to _send and the send succeeds,
\* seen[G].message_id is that message's Message-ID when the run ends (the
\* last one's, if the run sent several for G); and the In-Reply-To of every
\* message a run makes for G is the Message-ID of the message delivered
\* for G before it.
C5_LinearReplyChain ==
    /\ \A g \in {run.sent[i].guid : i \in DOMAIN run.sent} \ {""} :
          /\ g \in SeenGuids(seen)
          /\ SeenGet(seen, g).message_id = LastFor(run.sent, g)[1].message_id
    /\ \A i \in DOMAIN run.emitted :
          run.emitted[i].in_reply_to = PrecedingId(i)

C5_Witness ==
    /\ PerEntryRun /\ run.send
    /\ \E i \in DOMAIN run.sent :
          /\ run.sent[i].guid # ""
          /\ run.sent[i].in_reply_to # 0
          /\ run.sent[i].in_reply_to =
                DeliveredBefore(run.sent[i].guid).message_id
          /\ SeenGet(seen, run.sent[i].guid).message_id =
                run.sent[i].message_id

----------------------------------------------------------------------------
(* C6: reply_changes switched on later *)

\* a message for g was delivered by a run with reply_changes off, and g's
\* state was not written since
DeliveredWithoutReplies(g) ==
    /\ DeliveredBefore(g).message_id # 0
    /\ ~DeliveredBefore(g).reply_changes
    /\ DeliveredBefore(g).rerecorded = ""

\* C6: a run with reply_changes off records the Message-ID of each entry
\* it delivers; so when reply_changes is switched on afterwards, a run
\* that fetches the entry unchanged makes no message for it, and a
\* completed run that fetches it changed makes exactly one, in reply to
\* the original message.
C6_SwitchStillThreads ==
    /\ (PerEntryRun /\ run.send /\ ~run.cfg.reply_changes) =>
          \A i \in DOMAIN run.sent :
              StoredId(seen, run.sent[i].guid) = run.sent[i].message_id
    /\ (run.cfg.reply_changes /\ run.cfg.post_process = "") =>
          \A g \in SeenGuids(run.before.seen) :
              DeliveredWithoutReplies(g) =>
                  /\ UnchangedOnce(g) => EmittedFor(g) = {}
                  /\ (Completed /\ ChangedOnce(g)) =>
                        \E i \in DOMAIN run.emitted :
                            /\ EmittedFor(g) = {i}
                            /\ run.emitted[i].in_reply_to =
                                  DeliveredBefore(g).message_id

C6_Witness ==
    /\ Completed /\ PerEntryRun /\ run.send /\ run.cfg.reply_changes
    /\ \E g \in SeenGuids(run.before.seen) :
          /\ DeliveredWithoutReplies(g)
          /\ ChangedOnce(g)
          /\ \E i \in SentFor(g) :
                run.sent[i].in_reply_to = DeliveredBefore(g).message_id

----------------------------------------------------------------------------
(* C7: digest batching *)

\* the fetched entries that are new or changed against the `seen` dict the
\* run started with, in the order of processing
NewOrChanged ==
    LET fresh(e) ==
            LET g == GetUidForEntry(run.cfg, e)
            IN \/ g \notin SeenGuids(run.before.seen)
               \/ /\ run.cfg.reply_changes
                  /\ GetEntryHash(e) # SeenGet(run.before.seen, g).hash
    IN SelectSeq(Reverse(Entries), fresh)

\* C7: a completed run with digest=true and send=True (no
\* digest_post_process hook) whose fetch has N >= 1 new or changed entries
\* calls _send once, with one container of N parts in the order of
\* processing, dated as its last part; with N = 0 it sends nothing.
C7_DigestBatching ==
    (/\ Completed /\ run.cfg.digest /\ run.send
     /\ run.cfg.post_process = "" /\ run.cfg.digest_post_process = "")
    => IF NewOrChanged = <<>>
       THEN run.sent = <<>>
       ELSE /\ Len(run.sent) = 1
            /\ run.sent[1].guid = ""
            /\ Len(run.sent[1].parts) = Len(NewOrChanged)
            /\ \A j \in DOMAIN NewOrChanged :
                  /\ run.sent[1].parts[j].guid =
                        GetUidForEntry(run.cfg, NewOrChanged[j])
                  /\ run.sent[1].parts[j].body = NewOrChanged[j].content
                  /\ run.sent[1].parts[j] = run.emitted[j]
            /\ run.sent[1].date =
                  run.sent[1].parts[Len(run.sent[1].parts)].date

C7_Witness ==
    /\ Completed /\ run.cfg.digest /\ run.send
    /\ run.cfg.digest_post_process = ""
    /\ Len(run.sent) = 1
    /\ Len(run.sent[1].parts) >= 2
    /\ run.sent[1].parts[1].date # run.sent[1].date

----------------------------------------------------------------------------
(* C8: digest veto *)

\* C8: when the digest_post_process hook returns nothing, the run sends no
\* message, and `seen` holds the guids it held, each with the hash and the
\* Message-ID it had.
C8_DigestVeto ==
    run.result = "vetoed" =>
        /\ run.sent = <<>>
        /\ SeenGuids(seen) = SeenGuids(run.before.seen)
        /\ \A g \in SeenGuids(seen) :
              /\ SeenGet(seen, g).hash = SeenGet(run.before.seen, g).hash
              /\ SeenGet(seen, g).message_id =
                    SeenGet(run.before.seen, g).message_id

C8_Witness ==
    /\ run.result = "vetoed" /\ run.send
    /\ \E i \in DOMAIN run.emitted :
          StoredId(run.before.seen, run.emitted[i].guid) # 0

----------------------------------------------------------------------------
(* C9: the bound of the clean pruning *)

\* the guids of the fetched entries
Present == {GetUidForEntry(run.cfg, Entries[i]) : i \in DOMAIN Entries}

\* the guids of `seen` that no fetched entry carries, as the run found
\* them, in the order of insertion
Absent ==
    LET absent(state) == state.guid \notin Present
        states == SelectSeq(run.before.seen, absent)
    IN [i \in DOMAIN states |-> states[i].guid]

\* a run with clean=True whose fetch returned entries ran to its end
CleanRun == Completed /\ run.clean /\ Len(Entries) > 0

----------------------------------------------------------------------------
(* C10: `seen` is monotone outside reset and clean *)

\* C10: a call of Feed.run takes a guid out of `seen` only in the pruning
\* step, which a run reaches when clean=True, the fetch returned at least
\* one entry and the run did not end before; whatever send, digest and the
\* hooks are and however the run ends, every other call keeps every guid.
C10_SeenMonotone ==
    (/\ run.result \notin {"none", "reset"}
     /\ ~(Completed /\ run.clean /\ Len(Entries) > 0))
    => SeenGuids(run.before.seen) \subseteq SeenGuids(seen)

C10_Witness ==
    /\ Completed /\ run.clean /\ Len(Entries) = 0
    /\ Len(run.before.seen) > 3
    /\ SeenGuids(seen) = SeenGuids(run.before.seen)

----------------------------------------------------------------------------
(* The feed store: documents and files *)

\* Feeds.datafile_version
DatafileVersion == 2

\* data.get('version', None) of a document without a version
NoVersion == 0

MaxFeeds == 2

\* Feeds.datafile_path, and the paths of the data directory
DatafilePath == "rss2email.json"

\* as TmpPath, with the document written in place
TmpPathInPlace(path) == path

\* Feeds._save_feeds, line 343
TmpPath(path) == path \o ".tmp"

Paths == {DatafilePath, TmpPath(DatafilePath)}

\* The content of a file: the JSON document {"version": ..., "feeds":
\* [...]} as far as it was written; `complete` once the closing newline
\* of _save_feed_states is in the file.
NoFile ==
    [exists |-> FALSE, version |-> NoVersion, feeds |-> <<>>,
     complete |-> FALSE]

Document(version, states) ==
    [exists |-> TRUE, version |-> version, feeds |-> states,
     complete |-> TRUE]

\* Feeds._save_feed_states
SaveFeedStates(states) == Document(DatafileVersion, states)

\* open(path, 'w') followed by the first n writes of _save_feed_states:
\* the feed states one by one, then the end of the document
Written(states, n) ==
    IF n > Len(states) THEN SaveFeedStates(states)
    ELSE [exists |-> TRUE, version |-> DatafileVersion,
          feeds |-> SubSeq(states, 1, n), complete |-> FALSE]

\* os.replace(src, dst) on the data directory
Replace(dir, src, dst) ==
    IF src = dst THEN dir
    ELSE [p \in DOMAIN dir |->
            IF p = dst THEN dir[src] ELSE IF p = src THEN NoFile ELSE dir[p]]

\* Feed.get_state of a feed that was never run (Feed.reset)
NewFeedState(name) ==
    [name |-> name, etag |-> None, modified |-> None, seen |-> <<>>]

\* The value of a guid in a `seen` map of a document: the id itself in a
\* version 1 document (shape "flat"), a dict with the keys 'id' or 'hash'
\* in a version 2 document (shape "dict"; None: the key is absent).
FlatValue(guid, id) ==
    [guid |-> guid, shape |-> "flat", id |-> id, hash |-> None]

DictValue(guid, id, hash) ==
    [guid |-> guid, shape |-> "dict", id |-> id, hash |-> hash]

----------------------------------------------------------------------------
(* Feeds._load_feeds *)

\* as UpgradeSeen, with an empty dict for every guid
UpgradeSeenWithoutId(seenMap) ==
    [i \in DOMAIN seenMap |-> DictValue(seenMap[i].guid, None, None)]

\* Feeds._upgrade_state_data, lines 313-316: seen[guid] = {'id': id_}
UpgradeSeen(seenMap) ==
    [i \in DOMAIN seenMap |->
        DictValue(seenMap[i].guid, seenMap[i].id, None)]

\* as UpgradeStateData, taking every version for version 1
UpgradeStateDataAnyVersion(data) ==
    [error |-> "",
     feeds |-> [i \in DOMAIN data.feeds |->
                  [data.feeds[i] EXCEPT !.seen = UpgradeSeen(@)]]]

\* Feeds._upgrade_state_data: the upgraded feed states, or the exception
UpgradeStateData(data) ==
    IF data.version = 1
    THEN [error |-> "",
          feeds |-> [i \in DOMAIN data.feeds |->
                       [data.feeds[i] EXCEPT !.seen = UpgradeSeen(@)]]]
    ELSE [error |-> "NotImplementedError", feeds |-> <<>>]

\* lines 282-299: the feeds of the config sections that the datafile does
\* not have are appended, and the list is sorted by the order of the
\* sections; the feeds without a section keep their order, at the end
SortedBySections(states, secs) ==
    LET named(n) == CHOOSE j \in DOMAIN states : states[j].name = n
        known(n) == \E j \in DOMAIN states : states[j].name = n
        free(state) == \A i \in DOMAIN secs : secs[i] # state.name
    IN [i \in DOMAIN secs |->
          IF known(secs[i]) THEN states[named(secs[i])]
          ELSE NewFeedState(secs[i])]
       \o SelectSeq(states, free)

\* lines 261-280: the feed states of the document, migrated
LoadedStates(data) ==
    IF ~data.complete THEN [error |-> "UnpicklingError", feeds |-> <<>>]
    ELSE IF data.version # DatafileVersion THEN UpgradeStateData(data)
    ELSE [error |-> "", feeds |-> data.feeds]

\* Feeds._load_feeds on the document `data` of the datafile: the
\* exception ("": none) and the list it leaves in self
LoadFeeds(data, secs) ==
    IF LoadedStates(data).error # "" THEN LoadedStates(data)
    ELSE [error |-> "",
          feeds |-> SortedBySections(LoadedStates(data).feeds, secs)]

----------------------------------------------------------------------------
(* One process of r2e on the feed store *)

MaxGuids == 2

FeedName(n) == "f" \o ToString(n)

\* the `seen` maps of a stored feed: the first n guids of the feed, each
\* with the id a version 1 document keeps for it, or with its hash
StoredSeen(version, n) ==
    [i \in 1..n |->
        IF version = 1 THEN FlatValue(GuidName(i), "id" \o ToString(i))
        ELSE DictValue(GuidName(i), None, Sha1("c1"))]

\* the documents a datafile may hold: of a version without a migration
\* (none at all, or a later one), of version 1, or of the current version
StoredDocuments ==
    {Document(version,
              [i \in 1..n |-> [name |-> FeedName(i), etag |-> None,
                               modified |-> None,
                               seen |-> StoredSeen(version, guids[i])]]) :
        version \in {NoVersion, 1, DatafileVersion, DatafileVersion + 1},
        n \in 0..MaxFeeds,
        guids \in [1..MaxFeeds -> 0..MaxGuids]}

\* the feed sections of the config file: none, those of the stored feeds
\* in another order, or one the datafile does not know
StoredSections ==
    {<<>>, <<FeedName(2), FeedName(1)>>, <<FeedName(MaxFeeds + 1)>>}

\* what the process remembers of the datafile it started from
Found(file) == [datafile |-> file, changed |-> FALSE]

InitStore ==
    /\ \E file \in StoredDocuments \cup {NoFile} :
          /\ files = [p \in Paths |->
                        IF p = DatafilePath THEN file ELSE NoFile]
          /\ loaded = Found(file)
    /\ sections \in StoredSections
    /\ feeds = <<>>
    /\ pc = "start"
    /\ alive = TRUE
    /\ unix \in BOOLEAN
    /\ NotStoreUnused

\* Feeds.load: a missing datafile is created empty (lines 237-246), then
\* the document is read, migrated and checked; an exception ends the
\* process before any command runs
Load ==
    /\ alive /\ pc = "start"
    /\ LET file == IF files[DatafilePath].exists THEN files[DatafilePath]
                   ELSE SaveFeedStates(<<>>)
       IN /\ files' = [files EXCEPT ![DatafilePath] = file]
          /\ loaded' = Found(file)
          /\ feeds' = LoadFeeds(file, sections).feeds
          /\ pc' = IF LoadFeeds(file, sections).error = "" THEN "loaded"
                   ELSE "failed"
    /\ UNCHANGED <<sections, alive, unix>>
    /\ UNCHANGED notStoreVars

\* the command changes the feeds in memory: Feed.run stores a guid for a
\* feed (line 938), or Feed.reset forgets its guids
Mutate(i) ==
    /\ alive /\ pc = "loaded" /\ ~loaded.changed
    /\ i \in DOMAIN feeds
    /\ \/ /\ Len(feeds[i].seen) < MaxGuids
          /\ feeds' = [feeds EXCEPT ![i].seen =
                         Append(@, DictValue(GuidName(Len(@) + 1), None,
                                             Sha1("c1")))]
       \/ /\ feeds[i].seen # <<>>
          /\ feeds' = [feeds EXCEPT ![i].seen = <<>>]
    /\ loaded' = [loaded EXCEPT !.changed = TRUE]
    /\ UNCHANGED <<files, sections, pc, alive, unix>>
    /\ UNCHANGED notStoreVars

\* Feeds.save, lines 323-335: every feed gets its section, and the config
\* file is replaced
SaveConfig ==
    /\ alive /\ pc = "loaded"
    /\ LET free(state) == \A i \in DOMAIN sections : sections[i] # state.name
           added == SelectSeq(feeds, free)
       IN sections' = sections \o [i \in DOMAIN added |-> added[i].name]
    /\ pc' = "save"
    /\ UNCHANGED <<files, feeds, alive, unix, loaded>>
    /\ UNCHANGED notStoreVars

\* Feeds._save_feeds, line 344: the temporary file is opened for writing
SaveOpen ==
    /\ alive /\ pc = "save"
    /\ files' = [files EXCEPT ![TmpPath(DatafilePath)] = Written(feeds, 0)]
    /\ pc' = "write"
    /\ UNCHANGED <<sections, feeds, alive, unix, loaded>>
    /\ UNCHANGED notStoreVars

\* line 345: the next part of the document reaches the file
SaveWrite ==
    /\ alive /\ pc = "write"
    /\ ~files[TmpPath(DatafilePath)].complete
    /\ files' = [files EXCEPT ![TmpPath(DatafilePath)] =
                    Written(feeds, Len(@.feeds) + 1)]
    /\ UNCHANGED <<sections, feeds, pc, alive, unix, loaded>>
    /\ UNCHANGED notStoreVars

\* lines 346-347 and the end of the `with` block: flush, fsync, close
SaveSync ==
    /\ alive /\ pc = "write"
    /\ files[TmpPath(DatafilePath)].complete
    /\ pc' = "synced"
    /\ UNCHANGED <<files, sections, feeds, alive, unix, loaded>>
    /\ UNCHANGED notStoreVars

\* lines 350 and 359: os.replace(tmpfile, self.datafile_path); with UNIX
\* before the datafile is closed, without it after
SaveReplace ==
    /\ alive /\ pc = (IF unix THEN "synced" ELSE "closed")
    /\ files' = Replace(files, TmpPath(DatafilePath), DatafilePath)
    /\ pc' = IF unix THEN "replaced" ELSE "exited"
    /\ UNCHANGED <<sections, feeds, alive, unix, loaded>>
    /\ UNCHANGED notStoreVars

\* lines 351-353 and 356-358: self.datafile.close()
SaveClose ==
    /\ alive /\ pc = (IF unix THEN "replaced" ELSE "synced")
    /\ pc' = IF unix THEN "exited" ELSE "closed"
    /\ UNCHANGED <<files, sections, feeds, alive, unix, loaded>>
    /\ UNCHANGED notStoreVars

\* the process is terminated where it is
Terminate ==
    /\ alive /\ pc \notin {"exited", "failed"}
    /\ alive' = FALSE
    /\ UNCHANGED <<files, sections, feeds, pc, unix, loaded>>
    /\ UNCHANGED notStoreVars

\* the next process starts on what the last one left on the disk
Start ==
    /\ alive /\ pc \in {"exited", "failed"}
    /\ pc' = "start"
    /\ feeds' = <<>>
    /\ loaded' = Found(files[DatafilePath])
    /\ UNCHANGED <<files, sections, alive, unix>>
    /\ UNCHANGED notStoreVars

NextStore ==
    \/ Load
    \/ \E i \in 1..MaxFeeds + 1 : Mutate(i)
    \/ SaveConfig
    \/ SaveOpen
    \/ SaveWrite
    \/ SaveSync
    \/ SaveReplace
    \/ SaveClose
    \/ Terminate
    \/ Start

SpecStore == InitStore /\ [][NextStore]_vars

----------------------------------------------------------------------------
(* C11: the save is atomic *)

\* the points of a process at which the replace step has completed
Replaced == pc \in {"replaced", "exited"}

\* C11: wherever a process is, or was terminated, between the start and the
\* end of Feeds._save_feeds, the datafile holds a complete document: the
\* one the process loaded as long as os.replace has not been executed, the
\* one of the feeds in memory from then on.
C11_AtomicSave ==
    /\ files[DatafilePath].exists => files[DatafilePath].complete
    /\ files[DatafilePath] =
          IF Replaced THEN SaveFeedStates(feeds) ELSE loaded.datafile

C11_Witness ==
    /\ ~alive /\ pc = "write"
    /\ loaded.changed
    /\ SaveFeedStates(feeds) # loaded.datafile
    /\ files[TmpPath(DatafilePath)].exists
    /\ ~files[TmpPath(DatafilePath)].complete
    /\ Len(files[TmpPath(DatafilePath)].feeds) > 0
    /\ files[DatafilePath] = loaded.datafile

----------------------------------------------------------------------------
(* C13: the migration of a version 1 document *)

\* a process that loaded the document `loaded.datafile`, ran a command that
\* changed no feed, and saved
SavedBack == alive /\ pc = "exited" /\ ~loaded.changed

\* the feed state `new` is the state `old` with every guid in a dict that
\* carries the id the guid had
Migrated(old, new) ==
    /\ new.name = old.name
    /\ new.etag = old.etag /\ new.modified = old.modified
    /\ Len(new.seen) = Len(old.seen)
    /\ \A k \in DOMAIN old.seen :
          new.seen[k] = DictValue(old.seen[k].guid, old.seen[k].id, None)

\* C13: a version 1 document with flat guid -> id maps that is loaded and
\* saved back is a document of the current version that loads without an
\* error; every feed of the old document is in it with exactly its guids,
\* each with its id, once; the only other feeds in it are those of the
\* config sections the old document had no feed for, with no guid.
C13_MigrationRoundTrip ==
    (SavedBack /\ loaded.datafile.version = 1) =>
       /\ files[DatafilePath].complete
       /\ files[DatafilePath].version = DatafileVersion
       /\ LoadFeeds(files[DatafilePath], sections).error = ""
       /\ \A i \in DOMAIN loaded.datafile.feeds :
             \E j \in DOMAIN files[DatafilePath].feeds :
                Migrated(loaded.datafile.feeds[i],
                         files[DatafilePath].feeds[j])
       /\ \A j \in DOMAIN files[DatafilePath].feeds :
             \/ \E i \in DOMAIN loaded.datafile.feeds :
                   loaded.datafile.feeds[i].name
                      = files[DatafilePath].feeds[j].name
             \/ /\ files[DatafilePath].feeds[j].seen = <<>>
                /\ \E k \in DOMAIN sections :
                      sections[k] = files[DatafilePath].feeds[j].name
       /\ \A j, k \in DOMAIN files[DatafilePath].feeds :
             files[DatafilePath].feeds[j].name
                = files[DatafilePath].feeds[k].name => j = k

C13_Witness ==
    /\ SavedBack /\ loaded.datafile.version = 1
    /\ Len(loaded.datafile.feeds) = MaxFeeds
    /\ \A i \in DOMAIN loaded.datafile.feeds :
          Len(loaded.datafile.feeds[i].seen) > 0
    /\ files[DatafilePath].feeds[1].name = FeedName(2)
    /\ files[DatafilePath].feeds[1].seen[1].id = "id1"

----------------------------------------------------------------------------
(* C14: a document of an unknown version *)

\* the process found a document whose version is neither the current one
\* nor one with a migration, and has executed Feeds.load
LoadedUnknownVersion ==
    /\ pc # "start"
    /\ loaded.datafile.version \notin {1, DatafileVersion}

\* C14: a process that loads a document of a later version, or without a
\* version, ends in _load_feeds with NotImplementedError: the collection
\* is empty, no command changes a feed, nothing is saved, and the datafile
\* is the document that was found.
C14_UnknownVersionFatal ==
    LoadedUnknownVersion =>
       /\ pc = "failed"
       /\ LoadFeeds(loaded.datafile, sections).error = "NotImplementedError"
       /\ feeds = <<>>
       /\ ~loaded.changed
       /\ files[DatafilePath] = loaded.datafile
       /\ ~files[TmpPath(DatafilePath)].exists

C14_Witness ==
    /\ LoadedUnknownVersion /\ pc = "failed"
    /\ loaded.datafile.version > DatafileVersion
    /\ Len(loaded.datafile.feeds) > 0
    /\ Len(sections) > 0

----------------------------------------------------------------------------
(* Instances of r2e on one datafile (main.run, with UNIX) *)

MaxInstances == 3

Instances == 1..MaxInstances

\* os.getuid() of the user who starts the instances
Uid == "1000"

\* os.environ.get("XDG_RUNTIME_DIR") of an instance: set in a login
\* session, None where no session set it
XdgRuntimeDirs == {None, "/run/user/" \o Uid}

\* main.run, lines 179-183: lockfile_path
LockfilePath(xdg) ==
    IF xdg = None THEN "/tmp/rss2email-" \o Uid \o "/rss2email.lock"
    ELSE xdg \o "/rss2email.lock"

\* a file that does not exist, and a file with a document
Missing == [exists |-> FALSE, runs |-> <<>>]

Stored(runs) == [exists |-> TRUE, runs |-> runs]

InitLock ==
    /\ inst \in [Instances ->
                   [at : {"start"}, xdg : XdgRuntimeDirs, memory : {<<>>}]]
    /\ lock = [path \in {LockfilePath(xdg) : xdg \in XdgRuntimeDirs} |-> 0]
    /\ datafile = Stored(<<>>)
    /\ tmp = Missing
    /\ NotLockUnused

\* lines 184-185: fcntl.lockf(lockfile, LOCK_EX) returns once no other
\* process holds the lock of the file
Acquire(i) ==
    /\ inst[i].at = "start"
    /\ lock[LockfilePath(inst[i].xdg)] = 0
    /\ lock' = [lock EXCEPT ![LockfilePath(inst[i].xdg)] = i]
    /\ inst' = [inst EXCEPT ![i].at = "locked"]
    /\ UNCHANGED <<datafile, tmp>>
    /\ UNCHANGED notLockVars

\* lines 195-196: feeds.load()
LoadData(i) ==
    /\ inst[i].at = "locked"
    /\ inst' = [inst EXCEPT ![i].at = "loaded",
                            ![i].memory = datafile.runs]
    /\ UNCHANGED <<lock, datafile, tmp>>
    /\ UNCHANGED notLockVars

\* line 199: args.func changes the feeds in memory
RunCommand(i) ==
    /\ inst[i].at = "loaded"
    /\ inst' = [inst EXCEPT ![i].at = "ran", ![i].memory = Append(@, i)]
    /\ UNCHANGED <<lock, datafile, tmp>>
    /\ UNCHANGED notLockVars

\* Feeds._save_feeds, lines 343-347: the temporary file is written
SaveTmp(i) ==
    /\ inst[i].at = "ran"
    /\ tmp' = Stored(inst[i].memory)
    /\ inst' = [inst EXCEPT ![i].at = "written"]
    /\ UNCHANGED <<lock, datafile>>
    /\ UNCHANGED notLockVars

\* Feeds._save_feeds, line 350: os.replace(tmpfile, self.datafile_path)
\* raises FileNotFoundError when the temporary file is gone
ReplaceData(i) ==
    /\ inst[i].at = "written"
    /\ IF tmp.exists
       THEN /\ datafile' = tmp
            /\ tmp' = Missing
            /\ inst' = [inst EXCEPT ![i].at = "saved"]
       ELSE /\ inst' = [inst EXCEPT ![i].at = "raised"]
            /\ UNCHANGED <<datafile, tmp>>
    /\ UNCHANGED lock
    /\ UNCHANGED notLockVars

\* lines 205-207: lockfile.close() in the `finally`, and the exit
Release(i) ==
    /\ inst[i].at \in {"saved", "raised"}
    /\ lock' = [lock EXCEPT ![LockfilePath(inst[i].xdg)] = 0]
    /\ inst' = [inst EXCEPT ![i].at =
                   IF inst[i].at = "saved" THEN "exited" ELSE "failed"]
    /\ UNCHANGED <<datafile, tmp>>
    /\ UNCHANGED notLockVars

NextLock ==
    \E i \in Instances :
       \/ Acquire(i)
       \/ LoadData(i)
       \/ RunCommand(i)
       \/ SaveTmp(i)
       \/ ReplaceData(i)
       \/ Release(i)

SpecLock == InitLock /\ [][NextLock]_vars

----------------------------------------------------------------------------
(* C12: concurrent instances *)

\* instance i is between its load and the end of its save
Between(i) == inst[i].at \in {"loaded", "ran", "written"}

\* instance i holds the lock of its lock file
Holds(i) == lock[LockfilePath(inst[i].xdg)] = i

\* C12: every instance holds its lock from before its load until after its
\* save, no two instances are between load and save at once, no instance
\* fails, and when all have exited the datafile has the run of every
\* instance exactly once.
C12_ConcurrentRunsSerialize ==
    /\ \A i \in Instances :
          inst[i].at \in {"locked", "loaded", "ran", "written", "saved"}
             => Holds(i)
    /\ \A i, j \in Instances : i # j => ~(Between(i) /\ Between(j))
    /\ \A i \in Instances : inst[i].at \notin {"raised", "failed"}
    /\ (\A i \in Instances : inst[i].at = "exited") =>
          /\ Len(datafile.runs) = MaxInstances
          /\ {datafile.runs[k] : k \in DOMAIN datafile.runs} = Instances

\* the instances were started with the same XDG_RUNTIME_DIR
OneLockfile == \A i, j \in Instances : inst[i].xdg = inst[j].xdg

\* the statement of C12 for instances that share their lock file
SerializedUnderOneLockfile == OneLockfile => C12_ConcurrentRunsSerialize

----------------------------------------------------------------------------
(* TimeLimitedFunction (util.py) and its call in Feed._fetch *)

\* what feedparser.parse does with a feed: it returns a parsed feed,
\* raises, or does neither while the caller waits
Targets ==
    [does : {"returns"}, value : {"parsed1", "parsed2"}]
       \cup [does : {"raises"}, value : {"URLError", "ValueError"}]
       \cup [does : {"hangs"}, value : {None}]

\* the positional arguments of the two constructor calls in the source:
\* TimeLimitedFunction(0.5, sleeping_return) of the doctest (util.py:37),
\* and TimeLimitedFunction('feed <name>', timeout, feedparser.parse) of
\* Feed._fetch (feed.py:386)
ConstructorArgs ==
    {<<"timeout", "target">>, <<"feed f1", "timeout", "target">>,
     <<"feed f2", "timeout", "target">>}

\* TimeLimitedFunction.__init__(self, timeout, target, **kwargs): the
\* number of positional parameters after self
InitArity == 2

\* a thread that was not started: result and error are None
NewThread(target) ==
    [target |-> target, started |-> FALSE, alive |-> FALSE,
     result |-> None, error |-> None, late |-> FALSE]

InitLimited ==
    /\ \E args \in ConstructorArgs :
          caller = [at |-> "start", args |-> args, outcome |-> None,
                    value |-> None, cause |-> None]
    /\ \E target \in Targets : worker = NewThread(target)
    /\ expired = FALSE
    /\ NotLimitedUnused

\* the constructor call: Python raises TypeError when the positional
\* arguments do not fit the parameters
Construct ==
    /\ caller.at = "start"
    /\ IF Len(caller.args) = InitArity
       THEN caller' = [caller EXCEPT !.at = "constructed"]
       ELSE caller' = [caller EXCEPT !.at = "done", !.outcome = "raised",
                                     !.value = "TypeError"]
    /\ UNCHANGED <<worker, expired>>
    /\ UNCHANGED notLimitedVars

\* __call__, lines 70-73: self.start(); the caller enters self.join
StartThread ==
    /\ caller.at = "constructed"
    /\ caller' = [caller EXCEPT !.at = "joining"]
    /\ worker' = [worker EXCEPT !.started = TRUE, !.alive = TRUE]
    /\ UNCHANGED expired
    /\ UNCHANGED notLimitedVars

\* run, line 61: the target returned and self.result is assigned
TargetReturns ==
    /\ worker.alive /\ worker.target.does = "returns"
    /\ worker.result = None
    /\ worker' = [worker EXCEPT !.result = worker.target.value,
                               !.late = expired]
    /\ UNCHANGED <<caller, expired>>
    /\ UNCHANGED notLimitedVars

\* run, lines 62-63: the target raised and self.error is assigned
TargetRaises ==
    /\ worker.alive /\ worker.target.does = "raises"
    /\ worker.error = None
    /\ worker' = [worker EXCEPT !.error = worker.target.value,
                               !.late = expired]
    /\ UNCHANGED <<caller, expired>>
    /\ UNCHANGED notLimitedVars

\* run, lines 64-67: after the `finally` the thread ends
ThreadExits ==
    /\ worker.alive
    /\ worker.result # None \/ worker.error # None
    /\ worker' = [worker EXCEPT !.alive = FALSE]
    /\ UNCHANGED <<caller, expired>>
    /\ UNCHANGED notLimitedVars

\* self.timeout seconds have passed since the caller entered join
Expire ==
    /\ caller.at = "joining" /\ ~expired
    /\ expired' = TRUE
    /\ UNCHANGED <<caller, worker>>
    /\ UNCHANGED notLimitedVars

\* line 73: self.join(self.timeout) returns when the thread has ended or
\* the timeout has passed
Join ==
    /\ caller.at = "joining"
    /\ ~worker.alive \/ expired
    /\ caller' = [caller EXCEPT !.at = "joined"]
    /\ UNCHANGED <<worker, expired>>
    /\ UNCHANGED notLimitedVars

\* lines 74-76: if self.error: raise TimeoutError(...) from self.error[1]
CheckError ==
    /\ caller.at = "joined"
    /\ IF worker.error # None
       THEN caller' = [caller EXCEPT !.at = "done", !.outcome = "raised",
                                     !.value = "TimeoutError",
                                     !.cause = worker.error]
       ELSE caller' = [caller EXCEPT !.at = "checked"]
    /\ UNCHANGED <<worker, expired>>
    /\ UNCHANGED notLimitedVars

\* lines 77-79: elif self.isAlive(): raise TimeoutError(...); otherwise
\* return self.result
CheckAlive ==
    /\ caller.at = "checked"
    /\ IF worker.alive
       THEN caller' = [caller EXCEPT !.at = "done", !.outcome = "raised",
                                     !.value = "TimeoutError"]
       ELSE caller' = [caller EXCEPT !.at = "done", !.outcome = "returned",
                                     !.value = worker.result]
    /\ UNCHANGED <<worker, expired>>
    /\ UNCHANGED notLimitedVars

NextLimited ==
    \/ Construct
    \/ StartThread
    \/ TargetReturns
    \/ TargetRaises
    \/ ThreadExits
    \/ Expire
    \/ Join
    \/ CheckError
    \/ CheckAlive

SpecLimited == InitLimited /\ [][NextLimited]_vars

----------------------------------------------------------------------------
(* C15: the outcomes of a time-limited call *)

\* the call has ended, for the caller
CallDone == caller.at = "done"

\* the target returned, or raised, before the timeout passed
InTime == ~worker.late /\ (worker.result # None \/ worker.error # None)

\* C15: a call that has ended returned the target's result if the target
\* returned within the timeout, raised TimeoutError with the target's
\* exception as its cause if the target raised within the timeout, and
\* raised TimeoutError if the target had done neither when the timeout
\* passed.
C15_TimeLimitedOutcomes ==
    CallDone =>
       IF worker.target.does = "returns" /\ InTime
       THEN caller.outcome = "returned"
            /\ caller.value = worker.target.value
       ELSE IF worker.target.does = "raises" /\ InTime
       THEN caller.outcome = "raised" /\ caller.value = "TimeoutError"
            /\ caller.cause = worker.target.value
       ELSE caller.outcome = "raised" /\ caller.value = "TimeoutError"

\* the call is the one of Feed._fetch
FetchCall == Len(caller.args) = 3

\* what the call of Feed._fetch gives: TypeError from the constructor, for
\* every target, with no thread started
FetchCallRaisesTypeError ==
    (CallDone /\ FetchCall) =>
       /\ caller.outcome = "raised" /\ caller.value = "TypeError"
       /\ ~worker.started

----------------------------------------------------------------------------
(* The run command (command.py) *)

MaxListed == 3

\* the urls of the feeds: the authority as it is written in the url
Urls ==
    {[host |-> "example.org", port |-> ""],
     [host |-> "EXAMPLE.org", port |-> ""],
     [host |-> "example.org", port |-> "80"],
     [host |-> "example.com", port |-> ""]}

\* urllib.parse.urlparse(url).netloc: the authority, as written
Netloc(url) ==
    IF url.port = "" THEN url.host ELSE url.host \o ":" \o url.port

\* the network host of a url (urlparse(url).hostname): the host name in
\* lower case, without the port
Hostname(url) == IF url.host = "EXAMPLE.org" THEN "example.org" ELSE url.host

\* line 77: last_server before the first feed
FirstServer == "example.com"

\* the lists a user may ask for: nothing (all feeds, lines 68-69), feeds
\* by their index, a feed twice, an index that no feed has
Indexes == {<<>>, <<2, 1, 3>>, <<1, 1>>, <<2, MaxListed + 1, 1>>}

Requested == IF index = <<>> THEN [i \in 1..Len(listed) |-> i] ELSE index

\* how a call of Feed.run ends, and the `seen` updates it made before: it
\* returns, it raises an RSS2EmailError (a TimeoutError, an HTTPError, ...),
\* it raises another exception (the TypeError of the constructor call in
\* Feed._fetch), or the user interrupts it
Outcomes ==
    {[ends |-> "returns", stored |-> 1],
     [ends |-> "RSS2EmailError", stored |-> 0],
     [ends |-> "TypeError", stored |-> 0],
     [ends |-> "KeyboardInterrupt", stored |-> 0]}

Event(kind, feed, ends) == [kind |-> kind, feed |-> feed, ends |-> ends]

InitCommand ==
    /\ \E urls \in [1..MaxListed -> Urls], off \in {{}, {2}} :
          listed = [i \in 1..MaxListed |->
                      [active |-> i \notin off, url |-> urls[i]]]
    /\ index \in Indexes
    /\ loop = [at |-> "loop", pos |-> 1, last_server |-> FirstServer]
    /\ updates = [i \in 1..MaxListed |-> 0]
    /\ persisted = [i \in 1..MaxListed |-> 0]
    /\ events = <<>>
    /\ NotCommandUnused

\* as Caught, with no `except` clause around feed.run
CaughtNothing(ends) == FALSE

\* lines 92-93: except _error.RSS2EmailError as e: e.log()
Caught(ends) == ends = "RSS2EmailError"

\* as Finally, with the save after the loop instead of in a `finally`
FinallyAfterLoop(at) == at = "loop"

\* lines 95-96: the `finally` clause runs however the `try` block is left
Finally(at) == TRUE

\* lines 85-90: the sleep before the run, if the server is the last one
Sleeps(last_server, feed) ==
    IF last_server = Netloc(listed[feed].url)
    THEN <<Event("sleep", feed, "")>>
    ELSE <<>>

\* lines 91-93: the run, and the log of the error that is caught
RunAndLog(feed, ends) ==
    IF Caught(ends)
    THEN <<Event("run", feed, ends), Event("log", feed, ends)>>
    ELSE <<Event("run", feed, ends)>>

\* one turn of the loop, lines 78-94, for an active feed
RunFeed ==
    /\ loop.at = "loop" /\ loop.pos <= Len(Requested)
    /\ Requested[loop.pos] \in DOMAIN listed
    /\ listed[Requested[loop.pos]].active
    /\ \E outcome \in Outcomes :
          /\ events' = events
                \o Sleeps(loop.last_server, Requested[loop.pos])
                \o RunAndLog(Requested[loop.pos], outcome.ends)
          /\ updates' = [updates EXCEPT ![Requested[loop.pos]] =
                            @ + outcome.stored]
          /\ loop' =
                IF outcome.ends = "returns" \/ Caught(outcome.ends)
                THEN [loop EXCEPT
                        !.pos = @ + 1,
                        !.last_server =
                            Netloc(listed[Requested[loop.pos]].url)]
                ELSE [loop EXCEPT !.pos = @ + 1, !.at = "raised"]
    /\ UNCHANGED <<listed, index, persisted>>
    /\ UNCHANGED notCommandVars

\* one turn of the loop for a feed that is not active (line 82)
SkipFeed ==
    /\ loop.at = "loop" /\ loop.pos <= Len(Requested)
    /\ Requested[loop.pos] \in DOMAIN listed
    /\ ~listed[Requested[loop.pos]].active
    /\ loop' = [loop EXCEPT !.pos = @ + 1]
    /\ UNCHANGED <<listed, index, updates, persisted, events>>
    /\ UNCHANGED notCommandVars

\* line 79: feeds.index(index) raises FeedIndexError, outside the inner
\* `try`
IndexFails ==
    /\ loop.at = "loop" /\ loop.pos <= Len(Requested)
    /\ Requested[loop.pos] \notin DOMAIN listed
    /\ events' = Append(events, Event("raise", Requested[loop.pos],
                                      "FeedIndexError"))
    /\ loop' = [loop EXCEPT !.pos = @ + 1, !.at = "raised"]
    /\ UNCHANGED <<listed, index, updates, persisted>>
    /\ UNCHANGED notCommandVars

\* the `try` block is left, at the end of the loop or by an exception, and
\* run returns or raises
Leave ==
    /\ \/ loop.at = "raised"
       \/ loop.at = "loop" /\ loop.pos > Len(Requested)
    /\ IF Finally(loop.at)
       THEN /\ persisted' = updates
            /\ events' = Append(events, Event("save", 0, ""))
       ELSE UNCHANGED <<persisted, events>>
    /\ loop' = [loop EXCEPT !.at = "exited"]
    /\ UNCHANGED <<listed, index, updates>>
    /\ UNCHANGED notCommandVars

NextCommand ==
    \/ RunFeed
    \/ SkipFeed
    \/ IndexFails
    \/ Leave

SpecCommand == InitCommand /\ [][NextCommand]_vars

----------------------------------------------------------------------------
(* C16: a failure of one feed *)

\* the calls of Feed.run, in order
Runs == SelectSeq(events, LAMBDA e : e.kind = "run")

\* the requested feeds the loop has come to that exist and are active
ReachedActive ==
    SelectSeq(SubSeq(Requested, 1, loop.pos - 1),
              LAMBDA f : f \in DOMAIN listed /\ listed[f].active)

\* the loop was left by an exception: one of Feed.run that is not an
\* RSS2EmailError, or the FeedIndexError of a requested feed that does not
\* exist
Aborted ==
    \E k \in DOMAIN events :
       \/ events[k].kind = "raise"
       \/ events[k].kind = "run"
          /\ events[k].ends \notin {"returns", "RSS2EmailError"}

\* C16: an RSS2EmailError of a call of Feed.run is logged right after the
\* call; the feeds that were run are the active requested feeds the loop
\* has come to, in their order; and a run that no other exception ended
\* comes to every requested feed.
C16_FailureDoesNotStopRun ==
    /\ \A k \in DOMAIN events :
          (events[k].kind = "run" /\ events[k].ends = "RSS2EmailError") =>
             /\ k < Len(events)
             /\ events[k + 1] = Event("log", events[k].feed, events[k].ends)
    /\ [k \in DOMAIN Runs |-> Runs[k].feed] = ReachedActive
    /\ (loop.at = "exited" /\ ~Aborted) => loop.pos = Len(Requested) + 1

C16_Witness ==
    /\ loop.at = "exited" /\ ~Aborted
    /\ Len(Runs) = 3
    /\ Runs[1].ends = "RSS2EmailError"
    /\ Runs[2].ends = "returns"
    /\ Runs[3].ends = "RSS2EmailError"
    /\ <<Runs[1].feed, Runs[2].feed, Runs[3].feed>> = <<2, 1, 3>>

----------------------------------------------------------------------------
(* C18: the save on exit *)

\* the number of calls of Feed.run for `feed` that returned
Returned(feed) ==
    Cardinality({k \in DOMAIN events :
                    /\ events[k].kind = "run" /\ events[k].feed = feed
                    /\ events[k].ends = "returns"})

\* C18: however run is left - at the end of the loop, after errors that
\* were caught, or by an exception or an interrupt in the turn of some
\* feed - feeds.save() was the last thing it did, and the saved state has
\* the updates of every call of Feed.run that returned before.
C18_SaveOnExit ==
    loop.at = "exited" =>
       /\ events # <<>> /\ events[Len(events)] = Event("save", 0, "")
       /\ persisted = updates
       /\ \A f \in DOMAIN listed : persisted[f] = Returned(f)

C18_Witness ==
    /\ loop.at = "exited"
    /\ Len(Runs) = 3
    /\ Runs[1].ends = "returns"
    /\ Runs[2].ends = "RSS2EmailError"
    /\ Runs[3].ends = "KeyboardInterrupt"
    /\ persisted[Runs[1].feed] = 1

----------------------------------------------------------------------------
(* C19: the sleep between two fetches from one server *)

\* the call of Feed.run before the one of event k (0: there is none)
RunBefore(k) ==
    IF \E j \in 1..(k - 1) : events[j].kind = "run"
    THEN CHOOSE j \in 1..(k - 1) :
            /\ events[j].kind = "run"
            /\ \A m \in (j + 1)..(k - 1) : events[m].kind # "run"
    ELSE 0

\* event k is a call of Feed.run that follows another, and a sleep was
\* executed between the two
SleptBefore(k) == k > 1 /\ events[k - 1].kind = "sleep"

\* C19: when two feeds that are run one after the other have urls with
\* the same network host, a sleep is executed between the two runs.
C19_SameServerThrottle ==
    \A k \in DOMAIN events :
       (/\ events[k].kind = "run"
        /\ RunBefore(k) # 0
        /\ Hostname(listed[events[RunBefore(k)].feed].url)
              = Hostname(listed[events[k].feed].url))
       => SleptBefore(k)

\* what the loop does: the sleep is executed when the two urls have the
\* same netloc, letter for letter
ThrottleBySameNetloc ==
    \A k \in DOMAIN events :
       (events[k].kind = "run" /\ RunBefore(k) # 0) =>
          (SleptBefore(k) <=>
              Netloc(listed[events[RunBefore(k)].feed].url)
                 = Netloc(listed[events[k].feed].url))

----------------------------------------------------------------------------
(* C17: a run that fails with a fetch error *)

\* the run ended with the exception of _fetch or of _check_for_errors
FetchFailed == run.result \in {"FetchError", "HTTPError", "ProcessingError"}

\* etag, modified and `seen` are what they were before the run
StateKept ==
    /\ seen = run.before.seen
    /\ etag = run.before.etag
    /\ modified = run.before.modified

\* C17: a run that fails with a fetch error leaves the feed's etag,
\* modified and `seen` as they were, whatever clean and send are.
C17_FetchErrorKeepsState == FetchFailed => StateKept

\* what the run does: the state is kept by the failed runs without clean
FetchErrorKeepsStateWithoutClean == (FetchFailed /\ ~run.clean) => StateKept

----------------------------------------------------------------------------
(* Feeds.new_feed and Feeds.remove *)

MaxNames == 3

\* '{}{}'.format(prefix, i)
AutoName(prefix, i) == prefix \o ToString(i)

\* the prefixes a caller may give: the default, and one with a space
Prefixes == {"feed-", "my "}

\* the names a caller may give: with letters, digits, '.' and '-' only,
\* with a space, and the empty name
GivenNames == {"my-feed", "feed-1", "rss.2", "my feed", ""}

\* Feed._name_regexp.match(name), for the names above and the names made
\* of a prefix and a number: ^[\w\d.-]+$ wants one character or more, and
\* no space
NameMatches(name) ==
    /\ name \notin {"my feed", ""}
    /\ \A i \in 0..MaxNames : name # AutoName("my ", i)

Range(s) == {s[i] : i \in DOMAIN s}

\* as InUse, with a test that never finds the name
InUseNever(name, used) == FALSE

\* new_feed, lines 392 and 395: name in feed_names
InUse(name, used) == name \in Range(used)

\* new_feed, lines 389-394: the first of prefix0, prefix1, ... that no
\* feed of the list has
FirstFree(prefix, used) ==
    AutoName(prefix,
             CHOOSE i \in 0..Len(used) :
                /\ ~InUse(AutoName(prefix, i), used)
                /\ \A j \in 0..(i - 1) : InUse(AutoName(prefix, j), used))

\* the history of a call
Op(op, name, prefix, error) ==
    [op |-> op, name |-> name, prefix |-> prefix, error |-> error,
     before |-> names]

InitNames ==
    /\ names = <<>>
    /\ last = [op |-> "none", name |-> "", prefix |-> "", error |-> "",
               before |-> <<>>]
    /\ NotNamesUnused

\* lines 397-399: Feed(name=name) raises InvalidFeedName from _set_name,
\* or the feed is appended
Appended(op, name, prefix) ==
    IF NameMatches(name)
    THEN /\ Len(names) < MaxNames
         /\ names' = Append(names, name)
         /\ last' = Op(op, name, prefix, "")
    ELSE /\ names' = names
         /\ last' = Op(op, name, prefix, "InvalidFeedName")

\* new_feed(name=name)
NewFeedNamed(name) ==
    /\ IF InUse(name, names)
       THEN /\ names' = names
            /\ last' = Op("new_feed", name, "", "DuplicateFeedName")
       ELSE Appended("new_feed", name, "")
    /\ UNCHANGED notNamesVars

\* new_feed(prefix=prefix), without a name
NewFeedUnnamed(prefix) ==
    /\ Appended("new_feed()", FirstFree(prefix, names), prefix)
    /\ UNCHANGED notNamesVars

\* Feeds.remove(feed) for the i-th feed of the list
Remove(i) ==
    /\ i \in DOMAIN names
    /\ names' = SubSeq(names, 1, i - 1) \o SubSeq(names, i + 1, Len(names))
    /\ last' = Op("remove", names[i], "", "")
    /\ UNCHANGED notNamesVars

NextNames ==
    \/ \E name \in GivenNames : NewFeedNamed(name)
    \/ \E prefix \in Prefixes : NewFeedUnnamed(prefix)
    \/ \E i \in 1..MaxNames : Remove(i)

SpecNames == InitNames /\ [][NextNames]_vars

----------------------------------------------------------------------------
(* C20: the names of the feeds *)

\* C20: every name in the list matches the name pattern and no two feeds
\* have one name; new_feed with a name that a feed has raises
\* DuplicateFeedName and leaves the list as it was; new_feed without a name
\* appends prefix+i for the least i >= 0 such that no feed has that name.
C20_FeedNameInvariant ==
    /\ \A i \in DOMAIN names : NameMatches(names[i])
    /\ \A i, j \in DOMAIN names : names[i] = names[j] => i = j
    /\ (last.op = "new_feed" /\ last.name \in Range(last.before)) =>
          last.error = "DuplicateFeedName" /\ names = last.before
    /\ last.error = "DuplicateFeedName" =>
          last.op = "new_feed" /\ last.name \in Range(last.before)
    /\ (last.op = "new_feed()" /\ last.error = "") =>
          /\ names = Append(last.before, last.name)
          /\ \E i \in 0..MaxNames :
                /\ last.name = AutoName(last.prefix, i)
                /\ \A j \in 0..(i - 1) :
                      AutoName(last.prefix, j) \in Range(last.before)
                /\ last.name \notin Range(last.before)

C20_Witness ==
    /\ last.op = "new_feed()" /\ last.error = ""
    /\ last.name = AutoName("feed-", 2)
    /\ last.before = <<AutoName("feed-", 1), AutoName("feed-", 0)>>

----------------------------------------------------------------------------
(* The feed run with a post_process hook: SpecHook *)

\* the entries of EntryUniverse, and the first of them with its content in
\* upper case
HookEntryUniverse ==
    EntryUniverse
    \cup {[link |-> "l1", id |-> "i1", content |-> "C1", title |-> "t1"]}

\* the hooks of a [feed.x] section: post-process = <module> <function>
PostProcessHooks == {"downcase", "rewrite", "filter"}

\* per-entry and digest delivery with a post_process hook
HookConfigs(pol) ==
    {Config(pol, rc, digest, hook, "") :
        rc \in BOOLEAN, digest \in BOOLEAN, hook \in PostProcessHooks}

NextHook ==
    \/ \E cfg \in HookConfigs(policy),
          es \in SeqsUpTo(HookEntryUniverse, MaxEntries),
          send \in BOOLEAN :
          Run(cfg, send, FALSE, Fetched(es), 0)
    \/ \E send \in BOOLEAN : Rerun(send, FALSE)

SpecHook == Init /\ [][NextHook]_vars

----------------------------------------------------------------------------
(* C21: the contract of the post_process hook *)

\* a run with a post_process hook that got to the entries
HookRun ==
    /\ run.result \in {"ok", "SendError"}
    /\ run.cfg.post_process # ""

\* what the hook returned for the entry e, when m is the message made for
\* e as the run delivered it (the draft has the entry's content as body)
HookResult(e, m) ==
    PostProcess(run.cfg.post_process, e, [m EXCEPT !.body = e.content]).result

\* the hook returned nothing for the entry e
Vetoed(e) ==
    PostProcess(run.cfg.post_process, e,
                [guid |-> GetUidForEntry(run.cfg, e), message_id |-> 0,
                 in_reply_to |-> 0, date |-> 0, body |-> e.content,
                 parts |-> <<>>]).result = <<>>

\* C21: for each new or changed entry, when the post_process hook returns a
\* message, that returned message is the one delivered (or attached to the
\* digest) for the entry; when it returns nothing, the entry is not sent
\* and its guid is not recorded in `seen`.
C21_PostProcessContract ==
    HookRun =>
      /\ \A i \in DOMAIN run.emitted :
            \E k \in EntriesFor(run.emitted[i].guid) :
                HookResult(Entries[k], run.emitted[i]) = <<run.emitted[i]>>
      /\ \A k \in DOMAIN Entries :
            Vetoed(Entries[k]) =>
              LET g == GetUidForEntry(run.cfg, Entries[k])
              IN /\ \A i \in EmittedFor(g) :
                       run.emitted[i].body # Entries[k].content
                 /\ (EntriesFor(g) = {k} /\ g \notin SeenGuids(run.before.seen))
                       => g \notin SeenGuids(seen)

\* the two ways a hook keeps the contract: a hook that alters the message
\* it was given and returns it, and a hook that vetoes
HookContractInPlace ==
    (HookRun /\ run.cfg.post_process # "rewrite") =>
      /\ \A i \in DOMAIN run.emitted :
            \E k \in EntriesFor(run.emitted[i].guid) :
                HookResult(Entries[k], run.emitted[i]) = <<run.emitted[i]>>
      /\ \A k \in DOMAIN Entries :
            (Vetoed(Entries[k])
             /\ EntriesFor(GetUidForEntry(run.cfg, Entries[k])) = {k}
             /\ GetUidForEntry(run.cfg, Entries[k])
                   \notin SeenGuids(run.before.seen))
              => GetUidForEntry(run.cfg, Entries[k]) \notin SeenGuids(seen)

----------------------------------------------------------------------------
(* C22: the sleep only before a feed of the server of the feed before *)

\* event k is a sleep: the feed it is executed for
SleepFor(k) == events[k].feed

\* C22: a sleep is executed only before a feed that is not the first one
\* run in the invocation and whose host is the host of the feed run just
\* before it; none before the first feed run, whatever its host, and none
\* before a feed whose predecessor has another host.
C22_ThrottleOnlyRepeatedHost ==
    \A k \in DOMAIN events :
       events[k].kind = "sleep" =>
          /\ RunBefore(k) # 0
          /\ Hostname(listed[events[RunBefore(k)].feed].url)
                = Hostname(listed[SleepFor(k)].url)

\* what the loop does: a sleep is executed before a feed whose netloc is
\* the one of the feed run before it, or before the first feed run when its
\* netloc is the initial value of last_server
SleepOnlyForLastServer ==
    \A k \in DOMAIN events :
       events[k].kind = "sleep" =>
          IF RunBefore(k) # 0
          THEN Netloc(listed[events[RunBefore(k)].feed].url)
                  = Netloc(listed[SleepFor(k)].url)
          ELSE Netloc(listed[SleepFor(k)].url) = FirstServer

----------------------------------------------------------------------------
(* C23: the form of the migrated `seen` values *)

\* the process loaded a version 1 document, and no command has changed
\* a feed since
LoadedVersion1 ==
    /\ alive /\ pc = "loaded" /\ ~loaded.changed
    /\ loaded.datafile.complete /\ loaded.datafile.version = 1

\* C23: after a version 1 document is migrated, every `seen` value of every
\* feed is a dict of the current form: it carries a 'hash' key.
C23_MigrationStructuredForm ==
    LoadedVersion1 =>
       \A i \in DOMAIN feeds : \A k \in DOMAIN feeds[i].seen :
          /\ feeds[i].seen[k].shape = "dict"
          /\ feeds[i].seen[k].hash # None

\* what the migration does: every `seen` value is a dict with the one
\* key 'id'
MigrationMakesIdDicts ==
    LoadedVersion1 =>
       \A i \in DOMAIN feeds : \A k \in DOMAIN feeds[i].seen :
          /\ feeds[i].seen[k].shape = "dict"
          /\ feeds[i].seen[k].id # None
          /\ feeds[i].seen[k].hash = None

----------------------------------------------------------------------------
(* C24: the digest branch stores the batch after the digest was sent *)

\* a digest run that had a batch and came to the sending of the digest
DigestSendReached ==
    /\ run.cfg.digest
    /\ run.result \in {"ok", "SendError"}
    /\ run.emitted # <<>>

\* the state stored for guid g is the one made for the last message the
\* run attached for g
BatchStored(g) ==
    /\ g \in SeenGuids(seen)
    /\ SeenGet(seen, g).hash = Sha1(LastFor(run.emitted, g)[1].body)

\* C24: in a digest run the states of the batched guids are written to
\* `seen` after the digest was sent, or was not to be sent (send=False):
\* when the sending raises, no guid is added to `seen` and none is changed;
\* when it returns, or is skipped, every batched guid has its new state.
C24_DigestCommitAllOrNothing ==
    DigestSendReached =>
       /\ run.result = "SendError" => seen = run.before.seen
       /\ run.result = "ok" =>
             \A i \in DOMAIN run.emitted : BatchStored(run.emitted[i].guid)

\* the sending of a digest raised, in a run that batched a changed state
\* for a guid of `seen`
C24_Witness ==
    /\ DigestSendReached /\ run.result = "SendError"
    /\ \E i \in DOMAIN run.emitted :
          /\ run.emitted[i].guid \in SeenGuids(run.before.seen)
          /\ SeenGet(run.before.seen, run.emitted[i].guid).hash
                # Sha1(run.emitted[i].body)
          /\ SeenGet(seen, run.emitted[i].guid).hash
                # Sha1(run.emitted[i].body)

----------------------------------------------------------------------------
(* The feed run on entries with and without a link and an id: SpecUid *)

\* entries with and without a link (entry.get('link')) and a native id
\* (getattr(entry, 'id', None)); "" stands for an absent or empty value
UidEntryUniverse ==
    {[link |-> l, id |-> i, content |-> c, title |-> "t1"] :
        l \in {"", "l1"}, i \in {"", "i1"}, c \in {"c1", "c2"}}

NextUid ==
    \/ \E cfg \in Configs(policy),
          es \in SeqsUpTo(UidEntryUniverse, MaxEntries),
          send \in BOOLEAN :
          Run(cfg, send, FALSE, Fetched(es), 0)
    \/ \E send \in BOOLEAN : Rerun(send, FALSE)

SpecUid == Init /\ [][NextUid]_vars

----------------------------------------------------------------------------
(* C25: the guid of an entry *)

\* the guid the statement gives the entry e under the run's configuration
FirstMatch(e) ==
    CASE run.cfg.trust_link /\ e.link # "" -> e.link
      [] ~(run.cfg.trust_link /\ e.link # "")
         /\ run.cfg.trust_guid /\ e.id # "" -> e.id
      [] OTHER -> Sha1(e.content)

\* C25: the guid of an entry is its link when trust_link is on and the
\* entry has a link; otherwise its native id when trust_guid is on and the
\* entry has an id; otherwise its content hash: the guids a completed run
\* adds to `seen`, and the guids of its messages, are these, for every
\* setting of the two flags and every entry with or without link and id.
C25_IdentityFirstMatch ==
    run.result = "ok" =>
       /\ SeenGuids(seen) = SeenGuids(run.before.seen)
             \cup {FirstMatch(Entries[k]) : k \in DOMAIN Entries}
       /\ \A i \in DOMAIN run.emitted :
             \E k \in DOMAIN Entries :
                /\ run.emitted[i].guid = FirstMatch(Entries[k])
                /\ run.emitted[i].body = Entries[k].content

\* both flags on: one entry with link and id, one with the id only
C25_Witness ==
    /\ run.result = "ok"
    /\ run.cfg.trust_link /\ run.cfg.trust_guid
    /\ Len(Entries) = 2
    /\ Entries[1].link = "l1" /\ Entries[1].id = "i1"
    /\ Entries[2].link = "" /\ Entries[2].id = "i1"
    /\ SeenGuids(seen) = {"l1", "i1"}

----------------------------------------------------------------------------
(* C26: the order of the entries within a run *)

\* the guid and the content of the entries of the fetched list, the entry
\* fetched last first
OldestFirst ==
    [i \in DOMAIN Entries |->
        <<GetUidForEntry(run.cfg, Entries[Len(Entries) + 1 - i]),
          Entries[Len(Entries) + 1 - i].content>>]

\* the guid and the body of the messages; the date of a message is the
\* place of its entry in the order of processing
Keys(messages) ==
    [i \in DOMAIN messages |-> <<messages[i].guid, messages[i].body>>]

\* the sequence a is the sequence b with some of its items left out
RECURSIVE IsSubSeq(_, _)
IsSubSeq(a, b) ==
    IF a = <<>> THEN TRUE
    ELSE IF b = <<>> THEN FALSE
    ELSE IF a[1] = b[1] THEN IsSubSeq(Tail(a), Tail(b))
    ELSE IsSubSeq(a, Tail(b))

\* the guids the run added to `seen`, in the order of insertion
Inserted ==
    [i \in 1..(Len(seen) - Len(run.before.seen)) |->
        seen[Len(run.before.seen) + i].guid]

\* C26: within a run the entries are processed, sent and inserted into
\* `seen` in the reverse of the order of the fetched list: the messages
\* made, the messages sent (the parts of the digest) and the guids added
\* to `seen` follow that order, so the first entry of the fetched list,
\* when a message is made for it, is the last one sent or the last part of
\* the digest, and when its guid is new (and the guid of no other entry of
\* the list) it is the last guid of `seen`.
C26_EntryOrder ==
    (run.result = "ok" /\ Len(Entries) > 0) =>
       /\ \A i \in DOMAIN run.emitted :
             /\ Keys(run.emitted)[i] = OldestFirst[run.emitted[i].date]
             /\ \A j \in DOMAIN run.emitted :
                   i < j => run.emitted[i].date < run.emitted[j].date
       /\ (run.send /\ ~run.cfg.digest) => run.sent = run.emitted
       /\ (run.send /\ run.cfg.digest /\ run.emitted # <<>>) =>
             run.sent[1].parts = run.emitted
       /\ IsSubSeq(Inserted, [i \in DOMAIN OldestFirst |-> OldestFirst[i][1]])
       /\ \A i \in DOMAIN run.emitted :
             run.emitted[i].date = Len(Entries) => i = Len(run.emitted)
       /\ (/\ OldestFirst[Len(Entries)][1] \notin SeenGuids(run.before.seen)
           /\ EntriesFor(OldestFirst[Len(Entries)][1]) = {1}) =>
             seen[Len(seen)].guid = OldestFirst[Len(Entries)][1]

\* two new entries with two guids, one message each
C26_Witness ==
    /\ run.result = "ok" /\ run.send /\ ~run.cfg.digest
    /\ Len(Entries) = 2 /\ Len(run.sent) = 2
    /\ run.sent[1].guid # run.sent[2].guid
    /\ run.sent[2].guid = GetUidForEntry(run.cfg, Entries[1])
    /\ Len(seen) = 2
    /\ seen[Len(seen)].guid = GetUidForEntry(run.cfg, Entries[1])

----------------------------------------------------------------------------
(* C27: a time-limited call and a target that raises *)

\* the call returned to its caller
CallReturned == CallDone /\ caller.outcome = "returned"

\* the call raised TimeoutError, with or without a cause
CallTimeoutError ==
    CallDone /\ caller.outcome = "raised" /\ caller.value = "TimeoutError"

\* C27: under every interleaving of the caller and the worker thread, a
\* call returns only if the target returned, and then with the target's
\* result; when the target raised, the call raises TimeoutError.
C27_TimeoutNeverMasksFailure ==
    /\ CallReturned =>
          /\ worker.target.does = "returns"
          /\ caller.value = worker.target.value
    /\ (CallDone /\ worker.error # None) => CallTimeoutError

\* the same for the targets that do not raise after the timeout has passed
NeverMasksFailureInTime ==
    ~(worker.late /\ worker.error # None) => C27_TimeoutNeverMasksFailure

\* a call whose target raised after the timeout returns None
LateFailureMasked ==
    (CallReturned /\ worker.target.does = "raises") =>
       /\ worker.late /\ expired
       /\ caller.value = None

----------------------------------------------------------------------------
(* The feed run with a _send that raises at any message: SpecFail *)

\* a feed that was fetched before, when it had no entries
InitFail ==
    /\ seen = <<>>
    /\ etag = "e0"
    /\ modified = "m0"
    /\ policy \in Policies
    /\ delivered = <<>>
    /\ run = NoRun
    /\ NotFeedUnused

\* one message per entry
PerEntryConfigs(pol) == {Config(pol, rc, FALSE, "", "") : rc \in BOOLEAN}

\* r2e run, with or without --clean, where _send raises at one of the
\* messages or at none; then r2e run again
NextFail ==
    \/ \E cfg \in PerEntryConfigs(policy),
          es \in SeqsUpTo(UidEntryUniverse, MaxEntries),
          clean \in BOOLEAN, sendFail \in 0..MaxEntries :
          Run(cfg, TRUE, clean, Fetched(es), sendFail)
    \/ \E clean \in BOOLEAN : Rerun(TRUE, clean)

SpecFail == InitFail /\ [][NextFail]_vars

----------------------------------------------------------------------------
(* C28: a _send that raises in the middle of a run *)

\* no two entries of the fetched list have one guid
DistinctGuids == \A g \in Present : Cardinality(EntriesFor(g)) = 1

\* a run, one message per entry, in which _send raised
SendFailed ==
    /\ PerEntryRun /\ run.send
    /\ run.result = "SendError"

\* the run after one in which _send raised, against the same payload
RunAfterSendFailed ==
    /\ run.rerun /\ PerEntryRun /\ run.send /\ run.result = "ok"
    /\ run.previous.result = "SendError" /\ run.previous.send

\* the entries of the fetched list as guid and content
EntryKeys == {OldestFirst[i] : i \in DOMAIN OldestFirst}

KeySet(messages) == {Keys(messages)[i] : i \in DOMAIN messages}

\* what the statement says of the run in which _send raised
FailedRunRecorded ==
    /\ \A i \in DOMAIN run.sent :
          /\ run.sent[i].guid \in SeenGuids(seen)
          /\ SeenGet(seen, run.sent[i].guid).message_id
                = run.sent[i].message_id
    /\ SeenGuids(seen) = {run.sent[i].guid : i \in DOMAIN run.sent}
    /\ etag = run.before.etag
    /\ modified = run.before.modified

\* what the statement says of the run after it
Redelivered ==
    /\ KeySet(run.sent) \cap KeySet(run.previous.sent) = {}
    /\ KeySet(run.sent) \cup KeySet(run.previous.sent) = EntryKeys
    /\ Len(run.sent) + Len(run.previous.sent) = Len(Entries)

\* C28: when _send raises for the i-th message of a run (one message per
\* entry), the entries sent before it are in `seen` with their
\* Message-IDs, the i-th and the later ones are not in `seen`, and etag and
\* modified are what they were before the run; the next run against the
\* same payload sends the entries that were not sent, and none again.
\* (The feed had no guid in `seen`, and the entries have distinct guids.)
C28_PartialDeliveryFailure ==
    DistinctGuids =>
       /\ SendFailed => FailedRunRecorded
       /\ RunAfterSendFailed => Redelivered

\* the statement for runs without --clean
PartialDeliveryFailureWithoutClean ==
    (DistinctGuids /\ ~run.clean /\ ~run.previous.clean) =>
       /\ SendFailed => FailedRunRecorded
       /\ RunAfterSendFailed => Redelivered

----------------------------------------------------------------------------
(* The feed run on the state of a migrated datafile: SpecMigrated *)

\* Feed.__setstate__: the state Feed.run finds for a guid whose stored
\* value is a dict of the datafile; a key the dict does not have is read
\* as None (hash) or absent (message_id, old)
SeenState(value) ==
    [guid |-> value.guid, hash |-> value.hash, message_id |-> 0,
     old |-> FALSE]

\* the version 1 document of one feed with n guids
Version1Document(n) ==
    Document(1, <<[NewFeedState(FeedName(1)) EXCEPT
                      !.seen = StoredSeen(1, n)]>>)

\* Feeds._load_feeds on that document: self.seen of the feed
MigratedSeen(n) ==
    [i \in 1..n |->
        SeenState(LoadedStates(Version1Document(n)).feeds[1].seen[i])]

\* the entries of the feed: those of the guids of the document, and one
\* the document does not hold
MigratedEntries == {CleanEntry(n) : n \in 1..(MaxGuids + 1)}

MigratedConfigs ==
    {Config(DefaultPolicy, rc, digest, "", "") :
        rc \in BOOLEAN, digest \in BOOLEAN}

InitMigrated ==
    /\ \E n \in 0..MaxGuids : seen = MigratedSeen(n)
    /\ etag = None
    /\ modified = None
    /\ policy = DefaultPolicy
    /\ delivered = <<>>
    /\ run = NoRun
    /\ NotFeedUnused

NextMigrated ==
    \/ \E cfg \in MigratedConfigs,
          es \in SeqsUpTo(MigratedEntries, MaxEntries),
          send \in BOOLEAN :
          Run(cfg, send, FALSE, Fetched(es), 0)
    \/ \E send \in BOOLEAN : Rerun(send, FALSE)

SpecMigrated == InitMigrated /\ [][NextMigrated]_vars

----------------------------------------------------------------------------
(* C29: the first run after the migration *)

\* the first run on the migrated state came to its end, and every entry it
\* fetched has a guid of the migrated `seen`
KnownEntriesFetched ==
    /\ ~run.rerun /\ run.result = "ok"
    /\ Len(Entries) > 0
    /\ Present \subseteq SeenGuids(run.before.seen)

\* C29: after a version 1 datafile was loaded, a run whose entries all have
\* guids of the migrated `seen` delivers no message, with reply_changes on
\* or off.
C29_MigratedNotRedelivered ==
    KnownEntriesFetched => run.sent = <<>>

\* the statement for reply_changes off
MigratedNotRedeliveredWithoutReplies ==
    (KnownEntriesFetched /\ ~run.cfg.reply_changes) =>
       (run.emitted = <<>> /\ run.sent = <<>>)

\* with reply_changes on, the run makes a message for every guid it
\* fetched, none of them a reply
MigratedRedeliveredWithReplies ==
    (KnownEntriesFetched /\ run.cfg.reply_changes) =>
       /\ {run.emitted[i].guid : i \in DOMAIN run.emitted} = Present
       /\ \A i \in DOMAIN run.emitted : run.emitted[i].in_reply_to = 0

----------------------------------------------------------------------------
(* C30: a run with send=False, and the run after it *)

\* a run with send=False, one message per entry, came to its end
DryRunDone == Completed /\ PerEntryRun /\ ~run.send

\* the run with send=True that follows a run with send=False against the
\* same payload
RealRunAfterDryRun ==
    /\ run.rerun /\ Completed /\ PerEntryRun /\ run.send
    /\ run.previous.result = "ok" /\ ~run.previous.send

\* what the statement says of the two runs
DryRunRecorded ==
    /\ run.sent = <<>>
    /\ \A i \in DOMAIN run.emitted :
          /\ run.emitted[i].guid \in SeenGuids(seen)
          /\ SeenGet(seen, run.emitted[i].guid).hash
                = Sha1(run.emitted[i].body)

\* C30: a run with send=False (one message per entry) calls _send for no
\* entry and stores the guid of every new or changed entry in `seen` with
\* the hash of the entry; the following run with send=True against the
\* same payload delivers nothing.
C30_DryRunConsumesEntries ==
    /\ DryRunDone => DryRunRecorded
    /\ RealRunAfterDryRun => run.sent = <<>>

\* the statement for fetched lists in which no two entries have one guid
DryRunConsumesDistinctGuids ==
    DistinctGuids => C30_DryRunConsumesEntries

====
